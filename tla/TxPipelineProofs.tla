-------------------------- MODULE TxPipelineProofs --------------------------
(***************************************************************************)
(* Proofs that the pipeline of TxPipeline applies every inner transaction  *)
(* at most once, charges every wrapper at most once and never fails an     *)
(* `expect`, for any sets of transactions and any number of restarts.      *)
(*                                                                         *)
(* The invariant has two halves.  AtRest is about what is committed: the   *)
(* hashes cover everything that was applied or charged, and the queue      *)
(* holds different wrappers of the last block.  InBlock is about a block   *)
(* that is being executed: what the requests in the write log say about    *)
(* the transactions handled so far, and how the queue in memory continues  *)
(* the committed one.                                                      *)
(***************************************************************************)
EXTENDS TxPipeline, FiniteSetTheorems, TLAPS

Covered(h) == h \in last \cup all

(* How many decrypted transactions of the block were handled. *)
Done == Cardinality(Decrypted(block, next_tx - 1))

(* Everything in the block passed check_proposal_tx in the state that is   *)
(* still the committed one.                                                *)
Accepted == \A i \in 1 .. Len(block) : CheckProposalTx(block, i) = "Ok"

Complete == phase \in {"decided", "execute"} => ~QueueHasRemainingTxs

AtRest ==
    /\ \A x \in Inners : committed.applied[x] <= 1
    /\ \A x \in Inners : committed.applied[x] > 0 => Covered(x)
    /\ \A w \in Wrappers : committed.charged[w] <= 1
    /\ ChargedIsRefused
    /\ QueuedNotInAll
    /\ \A i \in 1 .. Len(queue) : queue[i] \in last
    /\ \A i, j \in 1 .. Len(queue) : queue[i] = queue[j] => i = j

(* Nothing is in memory that is not committed. *)
Idle ==
    phase # "execute" =>
        /\ replay_protection = NoRequests
        /\ tx_queue = queue
        /\ applied = committed.applied
        /\ charged = committed.charged

Requests ==
    /\ \A h \in Hashes : replay_protection[h] = "Finalize" => h \in last
    /\ \A h \in Hashes : replay_protection[h] = "Write" => h \notin last
    /\ \A h \in last : replay_protection[h] \in {"Finalize", "Delete"}
    /\ \A h \in Hashes : replay_protection[h] = "Delete" =>
          /\ h \in Wrappers
          /\ replay_protection[Inner[h]] \in {"Write", "Finalize"}
          /\ \E j \in 1 .. Done : queue[j] = h

Effects ==
    /\ \A w \in Wrappers : replay_protection[w] = "Write" =>
          \E i \in 1 .. (next_tx - 1) : block[i] = Tx("Wrapper", w)
    /\ \A x \in Inners : applied[x] # committed.applied[x] =>
          replay_protection[x] = "Write"
    /\ \A w \in Wrappers : charged[w] # committed.charged[w] =>
          replay_protection[w] = "Write"

(* The queue in memory: what is left of the committed one, then the        *)
(* wrappers of this block.                                                 *)
Alignment ==
    /\ Done <= Len(queue)
    /\ Len(queue) <= Done + Len(tx_queue)
    /\ \A j \in 1 .. Len(tx_queue) :
          Done + j <= Len(queue) => tx_queue[j] = queue[Done + j]
    /\ \A j \in 1 .. Len(tx_queue) : Done + j > Len(queue) =>
          /\ replay_protection[tx_queue[j]] = "Write"
          /\ ~Covered(Inner[tx_queue[j]])
    /\ \A i, j \in 1 .. Len(tx_queue) :
          (Done + i > Len(queue) /\ Done + j > Len(queue)
             /\ tx_queue[i] = tx_queue[j]) => i = j

InBlock ==
    phase = "execute" =>
        /\ next_tx <= Len(block) + 1
        /\ Requests
        /\ Effects
        /\ Alignment

IInv ==
    /\ TypeOK
    /\ NoPanic
    /\ AppliedOnce
    /\ ChargedOnce
    /\ Accepted
    /\ Complete
    /\ AtRest
    /\ Idle
    /\ InBlock

-----------------------------------------------------------------------------
(* The number of decrypted transactions among the first i of a block: a    *)
(* natural number, 0 for none.                                             *)
LEMMA CountType ==
    ASSUME NEW b \in Seq(Txs), NEW i \in 0 .. Len(b)
    PROVE  /\ IsFiniteSet(Decrypted(b, i))
           /\ Cardinality(Decrypted(b, i)) \in Nat
           /\ i = 0 => Cardinality(Decrypted(b, i)) = 0
<1>1. IsFiniteSet(1 .. i)
  BY FS_Interval
<1>2. IsFiniteSet(Decrypted(b, i))
  BY <1>1, FS_Subset DEF Decrypted
<1>3. i = 0 => Decrypted(b, i) = {}
  BY DEF Decrypted
<1> QED
  BY <1>2, <1>3, FS_CardinalityType, FS_EmptySet

(* It grows by one with every decrypted transaction. *)
LEMMA CountStep ==
    ASSUME NEW b \in Seq(Txs), NEW i \in 1 .. Len(b)
    PROVE  Cardinality(Decrypted(b, i)) =
             Cardinality(Decrypted(b, i - 1))
               + (IF b[i].type = "Decrypted" THEN 1 ELSE 0)
<1>1. IsFiniteSet(Decrypted(b, i - 1)) /\ i \notin Decrypted(b, i - 1)
  BY CountType DEF Decrypted
<1>2. CASE b[i].type = "Decrypted"
  <2>1. Decrypted(b, i) = Decrypted(b, i - 1) \cup {i}
    BY <1>2 DEF Decrypted
  <2> QED
    BY <1>1, <1>2, <2>1, FS_AddElement
<1>3. CASE b[i].type # "Decrypted"
  <2>1. Decrypted(b, i) = Decrypted(b, i - 1)
    BY <1>3 DEF Decrypted
  <2>2. Cardinality(Decrypted(b, i - 1)) \in Nat
    BY CountType
  <2> QED
    BY <1>3, <2>1, <2>2
<1> QED
  BY <1>2, <1>3

(* What follows a transaction does not change what check_proposal_tx says  *)
(* of it.                                                                  *)
LEMMA CheckPrefix ==
    ASSUME NEW b \in Seq(Txs), NEW c \in Seq(Txs), Len(b) <= Len(c),
           \A j \in 1 .. Len(b) : c[j] = b[j],
           NEW i \in 1 .. Len(b)
    PROVE  CheckProposalTx(c, i) = CheckProposalTx(b, i)
<1>1. Decrypted(c, i) = Decrypted(b, i)
  BY DEF Decrypted
<1>2. Earlier(c, i) = Earlier(b, i)
  <2>1. \A j \in 1 .. (i - 1) : c[j] = b[j]
    OBVIOUS
  <2> QED
    BY <2>1 DEF Earlier
<1>3. c[i] = b[i]
  OBVIOUS
<1>4. HashesIn(c, i - 1) = HashesIn(b, i - 1)
  BY DEF HashesIn
<1>5. WrappersIn(c, i - 1) = WrappersIn(b, i - 1)
  <2> DEFINE W(d) == {j \in 1 .. (i - 1) : d[j].type = "Wrapper"}
  <2>1. W(c) = W(b)
    OBVIOUS
  <2>2. \A j \in W(b) : c[j].hash = b[j].hash
    OBVIOUS
  <2> QED
    BY <2>1, <2>2 DEF WrappersIn
<1>6. TryDumpTx(c, i) = TryDumpTx(b, i) /\ TryDumpWrapper(c, i) = TryDumpWrapper(b, i)
  BY <1>3, <1>4, <1>5 DEF TryDumpTx, TryDumpWrapper
<1> QED
  BY <1>1, <1>2, <1>3, <1>6 DEF CheckProposalTx, ReplayProtectionChecks

-----------------------------------------------------------------------------
(* The invariant holds initially. *)
LEMMA InvInit == Init => IInv
<1> SUFFICES ASSUME Init PROVE IInv
  OBVIOUS
<1> USE TxPipelineAssumption DEF TxPipelineAssumption, Init, ReplayInit
<1>1. TypeOK
  <2>1. applied \in [Inners -> Nat] /\ charged \in [Wrappers -> Nat]
    OBVIOUS
  <2>2. committed \in [applied : [Inners -> Nat], charged : [Wrappers -> Nat],
                       max_proposal_bytes : ProposalBytes]
    BY <2>1
  <2>3. /\ replay_protection \in [Hashes -> {"None", "Write", "Delete", "Finalize"}]
        /\ crashes \in 0 .. MaxCrashes
    BY DEF NoRequests
  <2>4. queue \in Seq(Wrappers) /\ tx_queue \in Seq(Wrappers) /\ block \in Seq(Txs)
    OBVIOUS
  <2>5. panicked \in BOOLEAN
    OBVIOUS
  <2>6. last \subseteq Hashes /\ all \subseteq Hashes
    OBVIOUS
  <2>7. phase = "propose" /\ next_tx \in Nat \ {0}
    OBVIOUS
  <2> HIDE DEF Init, ReplayInit
  <2> QED
    BY <2>1, <2>2, <2>3, <2>4, <2>5, <2>6, <2>7 DEF TypeOK
<1>2. NoPanic /\ AppliedOnce /\ ChargedOnce
  BY DEF NoPanic, AppliedOnce, ChargedOnce
<1>3. Accepted /\ Complete
  BY DEF Accepted, Complete
<1>4. AtRest
  BY DEF AtRest, ChargedIsRefused, QueuedNotInAll
<1>5. Idle /\ InBlock
  BY DEF Idle, InBlock
<1> QED
  BY <1>1, <1>2, <1>3, <1>4, <1>5 DEF IInv

(* Outside of execution only the proposal changes: what is committed and   *)
(* what is in memory stay as they are.                                     *)
LEMMA RestUnchanged ==
    ASSUME IInv, phase # "execute", phase' # "execute",
           UNCHANGED <<replay_vars, queue, tx_queue, next_tx, applied, charged,
                       committed, crashes>>,
           block' \in Seq(Txs), phase' \in {"propose", "refused", "decided"},
           Accepted', Complete'
    PROVE  IInv'
<1>1. TypeOK'
  BY DEF IInv, TypeOK, replay_vars
<1>2. NoPanic' /\ AppliedOnce' /\ ChargedOnce'
  BY DEF IInv, NoPanic, AppliedOnce, ChargedOnce, replay_vars
<1>3. AtRest'
  BY DEF IInv, AtRest, ChargedIsRefused, QueuedNotInAll, Covered,
         HasCommittedReplayProtectionEntry, replay_vars
<1>4. Idle' /\ InBlock'
  BY DEF IInv, Idle, InBlock, replay_vars
<1> QED
  BY <1>1, <1>2, <1>3, <1>4 DEF IInv

(* A proposal that grows by an acceptable transaction stays acceptable. *)
LEMMA ProposeInv ==
    ASSUME IInv, NEW tx \in Txs, Propose(tx)
    PROVE  IInv'
<1>1. block \in Seq(Txs) /\ block' = Append(block, tx)
  BY DEF IInv, TypeOK, Propose
<1>2. /\ block' \in Seq(Txs) /\ Len(block') = Len(block) + 1
      /\ \A j \in 1 .. Len(block) : block'[j] = block[j]
  BY <1>1
<1>3. \A i \in 1 .. Len(block) : CheckProposalTx(block', i) = CheckProposalTx(block, i)
  <2> DEFINE b == block
             c == block'
  <2>1. b \in Seq(Txs) /\ c \in Seq(Txs) /\ Len(b) <= Len(c)
    BY <1>1, <1>2
  <2>2. \A j \in 1 .. Len(b) : c[j] = b[j]
    BY <1>2
  <2> HIDE DEF b, c
  <2>3. \A i \in 1 .. Len(b) : CheckProposalTx(c, i) = CheckProposalTx(b, i)
    BY <2>1, <2>2, CheckPrefix
  <2> QED
    BY <2>3 DEF b, c
<1>4. \A i \in 1 .. Len(block') : CheckProposalTx(block', i) = "Ok"
  BY <1>2, <1>3 DEF IInv, Accepted, Propose
<1>5. Accepted'
  BY <1>4 DEF Accepted, CheckProposalTx, ReplayProtectionChecks, Propose,
         TryDumpTx, TryDumpWrapper,
         HasCommittedReplayProtectionEntry, replay_vars, Earlier, Decrypted
<1> QED
  BY <1>2, <1>5, RestUnchanged DEF Propose, Complete

(* A new round starts from the empty proposal. *)
LEMMA NextRoundInv == IInv /\ NextRound => IInv'
<1> SUFFICES ASSUME IInv, NextRound PROVE IInv'
  OBVIOUS
<1>1. block' \in Seq(Txs) /\ Len(block') = 0
  BY DEF NextRound
<1>2. Accepted' /\ Complete'
  BY <1>1 DEF Accepted, Complete, NextRound
<1> QED
  BY <1>1, <1>2, RestUnchanged DEF NextRound

(* check_proposal_tx depends on the proposal and the committed state only. *)
LEMMA AcceptedStays ==
    ASSUME Accepted, UNCHANGED <<last, all, queue, block, committed>>
    PROVE  Accepted'
<1> SUFFICES ASSUME NEW i \in 1 .. Len(block)
             PROVE  CheckProposalTx(block, i)' = CheckProposalTx(block, i)
  BY DEF Accepted
<1>1. block' = block /\ queue' = queue
  OBVIOUS
<1>2. Decrypted(block, i)' = Decrypted(block, i)
  BY <1>1 DEF Decrypted
<1>3. ReplayProtectionChecks(block, i)' = ReplayProtectionChecks(block, i)
  BY DEF ReplayProtectionChecks, Earlier, HasCommittedReplayProtectionEntry
<1>4. TryDumpTx(block, i)' = TryDumpTx(block, i)
  BY DEF TryDumpTx
<1>5. TryDumpWrapper(block, i)' = TryDumpWrapper(block, i)
  BY DEF TryDumpWrapper
<1> QED
  BY <1>1, <1>2, <1>3, <1>4, <1>5, Zenon DEF CheckProposalTx

(* A decided block has as many decrypted transactions as the queue. *)
LEMMA DecideInv == IInv /\ Decide => IInv'
<1> SUFFICES ASSUME IInv, Decide PROVE IInv'
  OBVIOUS
<1>1. Accepted'
  BY AcceptedStays DEF IInv, Decide, replay_vars
<1>2. Complete'
  BY DEF Complete, QueueHasRemainingTxs, Decide, Decrypted
<1> QED
  BY <1>1, <1>2, RestUnchanged, SMTT(30) DEF Decide, IInv, TypeOK

(* So has the proposal of an honest proposer that is accepted. *)
LEMMA HonestRoundInv == IInv /\ HonestRound => IInv'
<1> SUFFICES ASSUME IInv, HonestRound PROVE IInv'
  OBVIOUS
<1> USE TxPipelineAssumption DEF TxPipelineAssumption
<1>1. PICK mempool \in Mempools, votes \in Votes :
        \E n \in 0 .. Len(mempool), m \in 0 .. Len(queue), k \in 0 .. Len(votes) :
          LET b == Prepared(mempool, n, m)
              accepted == ProcessProposal(b, votes, k)
          IN  /\ Prepares(mempool, votes, n, m, k)
              /\ block' = IF accepted THEN b ELSE <<>>
              /\ phase' = IF accepted THEN "decided" ELSE "refused"
  BY DEF HonestRound
<1>2. PICK n \in 0 .. Len(mempool), m \in 0 .. Len(queue), k \in 0 .. Len(votes) :
          /\ block' = IF ProcessProposal(Prepared(mempool, n, m), votes, k)
                        THEN Prepared(mempool, n, m) ELSE <<>>
          /\ phase' = IF ProcessProposal(Prepared(mempool, n, m), votes, k)
                        THEN "decided" ELSE "refused"
  BY <1>1
<1> DEFINE b == Prepared(mempool, n, m)
<1>3. b \in Seq(Txs)
  <2>1. queue \in Seq(Wrappers) /\ Len(queue) \in Nat
    BY DEF IInv, TypeOK
  <2>2. PICK q \in Nat : mempool \in [1 .. q -> Wrappers]
    <3>1. PICK q \in 0 .. Cardinality(ValidWrappers) :
            mempool \in Injection(1 .. q, ValidWrappers)
      BY DEF Mempools
    <3>2. ValidWrappers \subseteq Wrappers /\ q \in Nat
      BY <3>1 DEF ValidWrappers
    <3> QED
      BY <3>1, <3>2 DEF Injection
  <2>3. Len(mempool) = q
    BY <2>2
  <2>4. \A i \in 1 .. n : mempool[i] \in Wrappers
    BY <2>2, <2>3
  <2>5. \A i \in 1 .. (n + m) : i > n => Inner[queue[i - n]] \in Inners
    BY <2>1, <2>3
  <2>6. \A i \in 1 .. (n + m) :
          (IF i <= n THEN Tx("Wrapper", mempool[i])
           ELSE Tx("Decrypted", Inner[queue[i - n]])) \in Txs
    BY <2>1, <2>3, <2>4, <2>5 DEF Tx, Txs
  <2>7. n + m \in Nat
    BY <2>1, <2>3
  <2> QED
    BY <2>6, <2>7 DEF Prepared
<1> HIDE DEF b
<1>4. CASE ProcessProposal(b, votes, k)
  <2>1. block' = b /\ phase' = "decided"
    BY <1>2, <1>4 DEF b
  <2>2. Accepted'
    <3>1. \A i \in 1 .. Len(b) : CheckProposalTx(b, i) = "Ok"
      BY <1>4 DEF ProcessProposal
    <3>2. UNCHANGED <<last, all, queue, committed>>
      BY DEF HonestRound, replay_vars
    <3>3. ASSUME NEW i \in 1 .. Len(b)
          PROVE  CheckProposalTx(block, i)' = CheckProposalTx(b, i)
      <4>1. block'[i] = b[i] /\ queue' = queue
        BY <2>1, <3>2
      <4>2. Decrypted(block, i)' = Decrypted(b, i)
        BY <2>1 DEF Decrypted
      <4>3. ReplayProtectionChecks(block, i)' = ReplayProtectionChecks(b, i)
        BY <2>1, <3>2 DEF ReplayProtectionChecks, Earlier,
           HasCommittedReplayProtectionEntry
      <4>4. TryDumpTx(block, i)' = TryDumpTx(b, i)
        BY <2>1, <3>2 DEF TryDumpTx
      <4>5. TryDumpWrapper(block, i)' = TryDumpWrapper(b, i)
        BY <2>1, <3>2 DEF TryDumpWrapper
      <4> QED
        BY <4>1, <4>2, <4>3, <4>4, <4>5, Zenon DEF CheckProposalTx
    <3> QED
      BY <2>1, <3>1, <3>3 DEF Accepted
  <2>3. Complete'
    <3>1. Cardinality(Decrypted(b, Len(b))) >= Len(queue)
      BY <1>4 DEF ProcessProposal
    <3>2. Cardinality(Decrypted(b, Len(b))) \in Nat /\ Len(queue) \in Nat
      BY <1>3, CountType DEF IInv, TypeOK
    <3>3. queue' = queue
      BY DEF HonestRound
    <3> QED
      BY <2>1, <3>1, <3>2, <3>3 DEF Complete, QueueHasRemainingTxs, Decrypted
  <2> QED
    BY <1>3, <2>1, <2>2, <2>3, RestUnchanged DEF HonestRound
<1>5. CASE ~ProcessProposal(b, votes, k)
  <2>1. block' = <<>> /\ phase' = "refused"
    BY <1>2, <1>5 DEF b
  <2>2. Accepted' /\ Complete'
    BY <2>1 DEF Accepted, Complete
  <2> QED
    BY <2>1, <2>2, RestUnchanged DEF HonestRound
<1> QED
  BY <1>4, <1>5

(* What the committed state says stays true while it does not change. *)
LEMMA RestStays ==
    ASSUME IInv, UNCHANGED <<last, all, queue, committed>>
    PROVE  AtRest'
  BY DEF IInv, AtRest, ChargedIsRefused, QueuedNotInAll, Covered,
         HasCommittedReplayProtectionEntry

(* So does the check of the decided block. *)
LEMMA DecidedStays ==
    ASSUME IInv, UNCHANGED <<last, all, queue, block, committed>>,
           phase' \in {"decided", "execute"} => phase \in {"decided", "execute"}
    PROVE  Accepted' /\ Complete'
<1>1. Accepted /\ Complete
  BY DEF IInv
<1>2. Accepted'
  BY <1>1, AcceptedStays
<1>3. Complete'
  BY <1>1 DEF Complete, QueueHasRemainingTxs, Decrypted
<1> QED
  BY <1>2, <1>3

(* Execution starts with the hashes of the last block in the write log. *)
LEMMA BeginFinalizeInv == IInv /\ BeginFinalize => IInv'
<1> SUFFICES ASSUME IInv, BeginFinalize PROVE IInv'
  OBVIOUS
<1> USE DEF BeginFinalize, FinalizeTxHashes
<1>1. /\ replay_protection = NoRequests /\ tx_queue = queue
      /\ applied = committed.applied /\ charged = committed.charged
  BY DEF IInv, Idle
<1>2. /\ last \subseteq Hashes
      /\ replay_protection' = [h \in Hashes |-> IF h \in last THEN "Finalize" ELSE "None"]
  BY <1>1 DEF IInv, TypeOK, NoRequests
<1>3. panicked' = FALSE
  BY <1>1, <1>2 DEF IInv, NoPanic, NoRequests
<1>4. TypeOK'
  BY <1>2, <1>3 DEF IInv, TypeOK
<1>5. NoPanic' /\ AppliedOnce' /\ ChargedOnce'
  BY <1>3 DEF IInv, NoPanic, AppliedOnce, ChargedOnce
<1>6. Done' = 0
  <2>1. Decrypted(block, next_tx - 1)' = {}
    BY DEF Decrypted
  <2> QED
    BY <2>1, FS_EmptySet DEF Done
<1>7. Requests'
  BY <1>2 DEF Requests
<1>8. Effects'
  BY <1>1, <1>2, TxPipelineAssumption DEF Effects, TxPipelineAssumption
<1>9. Alignment'
  <2>1. queue' = queue /\ tx_queue' = queue /\ Len(queue) \in Nat
    BY <1>1 DEF IInv, TypeOK
  <2> QED
    BY <1>6, <2>1 DEF Alignment
<1>10. InBlock' /\ Idle'
  <2>1. Len(block) \in Nat
    BY DEF IInv, TypeOK
  <2> QED
    BY <1>7, <1>8, <1>9, <2>1 DEF InBlock, Idle
<1>11. Accepted' /\ Complete' /\ AtRest'
  BY RestStays, DecidedStays
<1> QED
  BY <1>4, <1>5, <1>10, <1>11 DEF IInv

(* A restart goes back to what is committed. *)
LEMMA CrashInv == IInv /\ Crash => IInv'
<1> SUFFICES ASSUME IInv, Crash PROVE IInv'
  OBVIOUS
<1> USE TxPipelineAssumption DEF TxPipelineAssumption, Crash
<1>1. block' \in Seq(Txs) /\ (phase = "propose" => Len(block') = 0)
  BY DEF IInv, TypeOK
<1>2. panicked' = FALSE
  OBVIOUS
<1>3. TypeOK'
  <2>1. /\ replay_protection' \in [Hashes -> {"None", "Write", "Delete", "Finalize"}]
        /\ crashes' \in 0 .. MaxCrashes
    BY DEF IInv, TypeOK, NoRequests
  <2>2. applied' \in [Inners -> Nat] /\ charged' \in [Wrappers -> Nat]
    BY DEF IInv, TypeOK
  <2>3. phase' \in {"propose", "refused", "decided", "execute"}
    BY DEF IInv, TypeOK
  <2> QED
    BY <1>1, <1>2, <2>1, <2>2, <2>3 DEF IInv, TypeOK
<1>4. NoPanic' /\ AppliedOnce' /\ ChargedOnce'
  BY <1>2 DEF IInv, NoPanic, AppliedOnce, ChargedOnce, AtRest
<1>5. Accepted' /\ Complete'
  <2>1. CASE phase = "propose"
    BY <1>1, <2>1 DEF Accepted, Complete
  <2>2. CASE phase # "propose"
    BY <2>2, DecidedStays
  <2> QED
    BY <2>1, <2>2
<1>6. AtRest'
  BY RestStays
<1>7. phase' # "execute"
  BY DEF IInv, TypeOK
<1>8. Idle' /\ InBlock'
  BY <1>7 DEF Idle, InBlock
<1> QED
  BY <1>3, <1>4, <1>5, <1>6, <1>8 DEF IInv

(* The requests as the three facts that a commit needs of them: inner      *)
(* hashes stay, written hashes are kept, and with a deleted wrapper hash   *)
(* that of its inner transaction is.                                       *)
LEMMA CommitKeeps ==
    ASSUME IInv, Commit
    PROVE  /\ \A x \in Inners : Covered(x) => Covered(x)'
           /\ \A h \in Hashes : replay_protection[h] = "Write" => h \in last'
           /\ \A w \in Wrappers : replay_protection[w] = "Delete" => Covered(Inner[w])'
<1> USE TxPipelineAssumption DEF TxPipelineAssumption
<1>1. Requests /\ last \subseteq Hashes /\ all \subseteq Hashes
  BY DEF IInv, InBlock, Commit, TypeOK
<1>2. /\ last' = (last \cup Requested("Write"))
                   \ (Requested("Delete") \cup Requested("Finalize"))
      /\ all' = all \cup Requested("Finalize")
  BY DEF Commit, CommitHashes
<1>3. \A h \in Hashes : replay_protection[h] = "Write" => h \in last'
  BY <1>2 DEF Requested
<1>4. \A h \in Hashes : replay_protection[h] = "Finalize" => h \in all'
  BY <1>2 DEF Requested
<1>5. \A x \in Inners : Covered(x) => Covered(x)'
  BY <1>1, <1>2, <1>4 DEF Covered, Requests
<1>6. \A w \in Wrappers : replay_protection[w] = "Delete" => Covered(Inner[w])'
  <2> SUFFICES ASSUME NEW w \in Wrappers, replay_protection[w] = "Delete"
               PROVE  Covered(Inner[w])'
    OBVIOUS
  <2>1. Inner[w] \in Hashes /\ replay_protection[Inner[w]] \in {"Write", "Finalize"}
    BY <1>1 DEF Requests
  <2> QED
    BY <1>3, <1>4, <2>1 DEF Covered
<1> QED
  BY <1>3, <1>5, <1>6

(* A commit takes the invariant of the block to that of the next one. *)
LEMMA CommitInv == IInv /\ Commit => IInv'
<1> SUFFICES ASSUME IInv, Commit PROVE IInv'
  OBVIOUS
<1> USE TxPipelineAssumption DEF TxPipelineAssumption
<1>1. /\ TypeOK /\ AtRest /\ Requests /\ Effects /\ Alignment
      /\ AppliedOnce /\ ChargedOnce
  BY DEF IInv, InBlock, Commit
<1>2. /\ queue' = tx_queue /\ tx_queue' = tx_queue
      /\ committed'.applied = applied /\ committed'.charged = charged
      /\ applied' = applied /\ charged' = charged
      /\ phase' = "propose" /\ block' = <<>>
      /\ replay_protection' = NoRequests /\ panicked' = panicked
      /\ all' = all \cup Requested("Finalize")
  BY DEF Commit, CommitHashes
<1>3. /\ tx_queue \in Seq(Wrappers) /\ Len(tx_queue) \in Nat /\ Len(queue) \in Nat
      /\ block \in Seq(Txs) /\ Len(block) \in Nat /\ next_tx \in Nat
  BY <1>1 DEF TypeOK
<1>4. Done = Len(queue)
  <2>1. next_tx - 1 = Len(block)
    BY <1>3 DEF Commit, IInv, InBlock
  <2>2. ~(Done < Len(queue))
    BY <2>1 DEF Done, IInv, Complete, QueueHasRemainingTxs, Commit
  <2>3. Done \in Nat
    BY <1>3, <2>1, CountType DEF Done
  <2> QED
    BY <1>1, <1>3, <2>2, <2>3 DEF Alignment
<1>5. \A j \in 1 .. Len(tx_queue) :
        /\ tx_queue[j] \in Wrappers
        /\ replay_protection[tx_queue[j]] = "Write"
        /\ ~Covered(Inner[tx_queue[j]])
  <2> SUFFICES ASSUME NEW j \in 1 .. Len(tx_queue)
               PROVE  /\ tx_queue[j] \in Wrappers
                      /\ replay_protection[tx_queue[j]] = "Write"
                      /\ ~Covered(Inner[tx_queue[j]])
    OBVIOUS
  <2>1. Done + j > Len(queue)
    BY <1>3, <1>4
  <2> QED
    BY <1>1, <1>3, <2>1 DEF Alignment
<1>6. TypeOK'
  <2>1. last' \subseteq Hashes /\ all' \subseteq Hashes
    BY <1>1 DEF TypeOK, Commit, CommitHashes, Requested
  <2>2. replay_protection' \in [Hashes -> {"None", "Write", "Delete", "Finalize"}]
    BY <1>2 DEF NoRequests
  <2>3. committed' \in [applied : [Inners -> Nat], charged : [Wrappers -> Nat],
                        max_proposal_bytes : ProposalBytes]
    BY <1>1 DEF TypeOK, Commit
  <2> QED
    BY <1>1, <1>2, <2>1, <2>2, <2>3 DEF TypeOK, Commit
<1>7. NoPanic' /\ AppliedOnce' /\ ChargedOnce'
  BY <1>1, <1>2 DEF IInv, NoPanic, AppliedOnce, ChargedOnce
<1>8. Accepted' /\ Complete' /\ Idle' /\ InBlock'
  BY <1>2 DEF Accepted, Complete, Idle, InBlock
<1>9. AtRest'
  <2>1. \A x \in Inners : committed'.applied[x] <= 1
    BY <1>1, <1>2 DEF AppliedOnce
  <2>2. \A x \in Inners : committed'.applied[x] > 0 => Covered(x)'
    BY <1>1, <1>2, CommitKeeps DEF AtRest, Effects, Covered
  <2>3. \A w \in Wrappers : committed'.charged[w] <= 1
    BY <1>1, <1>2 DEF ChargedOnce
  <2>4. ChargedIsRefused'
    <3> SUFFICES ASSUME NEW w \in Wrappers, charged[w] > 0
                 PROVE  Covered(w)' \/ Covered(Inner[w])'
      BY <1>2 DEF ChargedIsRefused, Covered, HasCommittedReplayProtectionEntry
    <3>1. CASE charged[w] # committed.charged[w]
      BY <1>1, <3>1, CommitKeeps DEF Effects, Covered
    <3>2. CASE charged[w] = committed.charged[w] /\ w \in last
      <4>1. replay_protection[w] \in {"Finalize", "Delete"}
        BY <1>1, <3>2 DEF Requests
      <4>2. replay_protection[w] = "Finalize" => w \in all'
        BY <1>2 DEF Requested
      <4> QED
        BY <4>1, <4>2, CommitKeeps DEF Covered
    <3>3. CASE charged[w] = committed.charged[w] /\ w \in all
      BY <1>2, <3>3 DEF Covered
    <3>4. CASE charged[w] = committed.charged[w] /\ w \notin last \cup all
      <4>1. Inner[w] \in Inners /\ Covered(Inner[w])
        BY <1>1, <3>4 DEF AtRest, ChargedIsRefused, Covered,
                          HasCommittedReplayProtectionEntry
      <4> QED
        BY <4>1, CommitKeeps
    <3> QED
      BY <3>1, <3>2, <3>3, <3>4
  <2>5. QueuedNotInAll'
    <3> SUFFICES ASSUME NEW j \in 1 .. Len(tx_queue)
                 PROVE  Inner[tx_queue[j]] \notin all'
      BY <1>2 DEF QueuedNotInAll
    <3>1. Inner[tx_queue[j]] \in Hashes /\ ~Covered(Inner[tx_queue[j]])
      BY <1>5
    <3> QED
      BY <1>1, <1>2, <3>1 DEF Covered, Requests, Requested
  <2>6. \A i \in 1 .. Len(queue') : queue'[i] \in last'
    BY <1>2, <1>5, CommitKeeps
  <2>7. \A i, j \in 1 .. Len(queue') : queue'[i] = queue'[j] => i = j
    <3> SUFFICES ASSUME NEW i \in 1 .. Len(tx_queue), NEW j \in 1 .. Len(tx_queue),
                        tx_queue[i] = tx_queue[j]
                 PROVE  i = j
      BY <1>2
    <3>1. Done + i > Len(queue) /\ Done + j > Len(queue)
      BY <1>3, <1>4
    <3> QED
      BY <1>1, <3>1 DEF Alignment
  <2> QED
    BY <2>1, <2>2, <2>3, <2>4, <2>5, <2>6, <2>7 DEF AtRest
<1> QED
  BY <1>6, <1>7, <1>8, <1>9 DEF IInv

(* Whatever transaction is handled, it is one that was accepted, and the   *)
(* committed state and the block stay as they are.                         *)
LEMMA HandlesOk ==
    ASSUME IInv, NEW type \in {"Wrapper", "Decrypted"}, NEW code, Handles(type, code)
    PROVE  /\ next_tx \in 1 .. Len(block) /\ block \in Seq(Txs)
           /\ block[next_tx] \in Txs /\ block[next_tx].type = type
           /\ CheckProposalTx(block, next_tx) = "Ok"
           /\ Done \in Nat
           /\ Done' = Done + (IF type = "Decrypted" THEN 1 ELSE 0)
           /\ Cardinality(Decrypted(block, next_tx)) = Done'
           /\ next_tx' = next_tx + 1 /\ next_tx' <= Len(block') + 1
           /\ Accepted' /\ Complete' /\ AtRest'
           /\ Requests /\ Effects /\ Alignment /\ phase' = "execute"
<1>1. /\ next_tx \in 1 .. Len(block) /\ block \in Seq(Txs) /\ block' = block
      /\ next_tx' = next_tx + 1 /\ Len(block) \in Nat /\ block[next_tx].type = type
      /\ phase = "execute" /\ phase' = "execute"
  BY DEF IInv, TypeOK, Handles
<1>2. block[next_tx] \in Txs /\ CheckProposalTx(block, next_tx) = "Ok"
  BY <1>1 DEF IInv, Accepted
<1>3. Cardinality(Decrypted(block, next_tx)) =
        Done + (IF type = "Decrypted" THEN 1 ELSE 0)
  BY <1>1, CountStep DEF Done
<1>4. Done \in Nat
  <2>1. next_tx - 1 \in 0 .. Len(block)
    BY <1>1
  <2> QED
    BY <1>1, <2>1, CountType DEF Done
<1>5. Done' = Cardinality(Decrypted(block, next_tx))
  <2>1. next_tx' - 1 = next_tx
    BY <1>1
  <2>2. Decrypted(block, next_tx - 1)' = Decrypted(block, next_tx)
    BY <1>1, <2>1 DEF Decrypted
  <2> QED
    BY <2>2 DEF Done
<1>6. Accepted' /\ Complete' /\ AtRest'
  BY <1>1, RestStays, DecidedStays DEF Handles
<1>7. Requests /\ Effects /\ Alignment
  BY <1>1 DEF IInv, InBlock
<1> QED
  BY <1>1, <1>2, <1>3, <1>4, <1>5, <1>6, <1>7

(* A wrapper that is handled has a new hash, before any decrypted one. *)
LEMMA WrapperIsNew ==
    ASSUME IInv, Handles("Wrapper", "Ok")
    PROVE  LET w == block[next_tx].hash
           IN  /\ w \in Wrappers /\ block[next_tx] = Tx("Wrapper", w)
               /\ ~Covered(w) /\ ~Covered(Inner[w])
               /\ replay_protection[w] = "None"
<1> DEFINE w == block[next_tx].hash
<1>1. /\ block[next_tx] \in Txs /\ block[next_tx].type = "Wrapper"
      /\ CheckProposalTx(block, next_tx) = "Ok"
      /\ next_tx \in 1 .. Len(block) /\ Requests /\ Effects
  BY HandlesOk
<1>2. w \in Wrappers /\ block[next_tx] = Tx("Wrapper", w)
  BY <1>1 DEF Txs, Tx
<1>3. ReplayProtectionChecks(block, next_tx)
  BY <1>1 DEF CheckProposalTx
<1>4. ~Covered(w) /\ ~Covered(Inner[w])
  BY <1>3 DEF ReplayProtectionChecks, Covered, HasCommittedReplayProtectionEntry
<1>5. \A i \in 1 .. (next_tx - 1) : block[i] # Tx("Wrapper", w)
  BY <1>2, <1>3 DEF ReplayProtectionChecks, Earlier
<1>6. replay_protection[w] \in {"None", "Write", "Delete", "Finalize"} /\ w \in Hashes
  BY <1>2, TxPipelineAssumption DEF IInv, TypeOK, TxPipelineAssumption
<1>7. replay_protection[w] # "Write"
  BY <1>1, <1>2, <1>5, SMTT(30) DEF Effects
<1>8. replay_protection[w] # "Finalize"
  BY <1>1, <1>4, <1>6 DEF Requests, Covered
<1>9. replay_protection[w] # "Delete"
  <2> SUFFICES ASSUME replay_protection[w] = "Delete" PROVE FALSE
    OBVIOUS
  <2>1. PICK j \in 1 .. Done : queue[j] = w
    BY <1>1, <1>6, SMTT(30) DEF Requests
  <2>2. Done \in Nat /\ Len(queue) \in Nat /\ Done <= Len(queue)
    BY HandlesOk DEF Alignment, IInv, TypeOK
  <2>3. w \in last
    BY <2>1, <2>2, SMTT(30) DEF IInv, AtRest
  <2> QED
    BY <1>4, <2>3 DEF Covered
<1> QED
  BY <1>2, <1>4, <1>6, <1>7, <1>8, <1>9

(* A decrypted transaction that is handled belongs to the wrapper at the   *)
(* head of the queue.                                                      *)
LEMMA DecryptedIsHead ==
    ASSUME IInv, NEW code, Handles("Decrypted", code)
    PROVE  /\ tx_queue # <<>> /\ Done + 1 <= Len(queue)
           /\ Head(tx_queue) = queue[Done + 1]
           /\ Head(tx_queue) \in Wrappers
           /\ block[next_tx].hash = Inner[Head(tx_queue)]
           /\ block[next_tx].hash \in Inners
<1>1. /\ CheckProposalTx(block, next_tx) = "Ok" /\ Done \in Nat
      /\ Cardinality(Decrypted(block, next_tx)) = Done + 1
      /\ block[next_tx].type = "Decrypted" /\ Alignment
  BY HandlesOk
<1>2. tx_queue \in Seq(Wrappers) /\ queue \in Seq(Wrappers)
  BY DEF IInv, TypeOK
<1>3. Done + 1 <= Len(queue) /\ Inner[queue[Done + 1]] = block[next_tx].hash
  BY <1>1, <1>2 DEF CheckProposalTx
<1>4. Len(tx_queue) >= 1
  BY <1>1, <1>2, <1>3 DEF Alignment
<1>5. tx_queue[1] = queue[Done + 1]
  BY <1>1, <1>2, <1>3, <1>4 DEF Alignment
<1>6. tx_queue # <<>> /\ Head(tx_queue) = tx_queue[1] /\ tx_queue[1] \in Wrappers
  BY <1>2, <1>4
<1> QED
  BY <1>3, <1>5, <1>6, TxPipelineAssumption DEF TxPipelineAssumption

(* A wrapper adds its hash, its fee and, if all goes well, its place in    *)
(* the queue.                                                              *)
LEMMA FinalizeWrapperInv ==
    ASSUME IInv, NEW result, FinalizeWrapper(result)
    PROVE  IInv'
<1> DEFINE w == block[next_tx].hash
<1> USE TxPipelineAssumption DEF TxPipelineAssumption
<1>1. Handles("Wrapper", "Ok")
  BY DEF FinalizeWrapper
<1>2. /\ replay_protection' = [replay_protection EXCEPT ![w] = "Write"]
      /\ panicked' = (replay_protection[w] # "None")
      /\ charged' = IF result = "fee_error" THEN charged
                    ELSE [charged EXCEPT ![w] = @ + 1]
      /\ tx_queue' = IF result = "ok" THEN Append(tx_queue, w) ELSE tx_queue
      /\ applied' = applied
  BY DEF FinalizeWrapper, WriteTxHash, WriteTxHashFails
<1>3. /\ UNCHANGED <<last, all, queue, phase, block, committed, crashes>>
      /\ next_tx' = next_tx + 1
  BY <1>1 DEF Handles
<1>4. /\ w \in Wrappers /\ block[next_tx] = Tx("Wrapper", w)
      /\ ~Covered(w) /\ ~Covered(Inner[w])
      /\ replay_protection[w] = "None" /\ w \in Hashes /\ w \notin Inners
  BY <1>1, WrapperIsNew
<1>5. /\ Done \in Nat /\ Done' = Done /\ next_tx \in 1 .. Len(block)
      /\ Accepted' /\ Complete' /\ AtRest' /\ next_tx' <= Len(block') + 1
      /\ Requests /\ Effects /\ Alignment /\ phase' = "execute"
  BY <1>1, HandlesOk
<1> HIDE DEF w
<1>6. TypeOK
  BY DEF IInv
<1>7. panicked' = FALSE
  BY <1>2, <1>4
<1>8. TypeOK'
  <2>1. replay_protection' \in [Hashes -> {"None", "Write", "Delete", "Finalize"}]
    BY <1>2, <1>6 DEF TypeOK
  <2>2. charged' \in [Wrappers -> Nat] /\ tx_queue' \in Seq(Wrappers)
    BY <1>2, <1>4, <1>6, SMTT(30) DEF TypeOK
  <2> QED
    BY <1>2, <1>3, <1>6, <1>7, <2>1, <2>2, SMTT(30) DEF TypeOK
<1>9. charged[w] = 0
  <2>1. charged[w] = committed.charged[w]
    BY <1>4, <1>5 DEF Effects
  <2>2. ~(committed.charged[w] > 0)
    BY <1>4 DEF IInv, AtRest, ChargedIsRefused, Covered,
                HasCommittedReplayProtectionEntry
  <2>3. charged[w] \in Nat
    BY <1>4, <1>6 DEF TypeOK
  <2> QED
    BY <2>1, <2>2, <2>3
<1>10. NoPanic' /\ AppliedOnce' /\ ChargedOnce'
  <2>1. ChargedOnce'
    BY <1>2, <1>4, <1>6, <1>9 DEF IInv, ChargedOnce, TypeOK
  <2> QED
    BY <1>2, <1>7, <2>1 DEF IInv, NoPanic, AppliedOnce
<1>11. Requests'
  <2>1. \A h \in Hashes : h # w => replay_protection'[h] = replay_protection[h]
    BY <1>2, <1>6 DEF TypeOK
  <2>2. replay_protection'[w] = "Write"
    BY <1>2, <1>4, <1>6 DEF TypeOK
  <2>3. w \notin last /\ last \subseteq Hashes
    BY <1>4, <1>6 DEF Covered, TypeOK
  <2>4. \A v \in Wrappers : Inner[v] # w /\ Inner[v] \in Hashes
    BY <1>4
  <2> QED
    BY <1>3, <1>5, <2>1, <2>2, <2>3, <2>4 DEF Requests
<1>12. Effects'
  <2>1. \A v \in Wrappers : replay_protection'[v] = "Write" =>
           \E i \in 1 .. (next_tx' - 1) : block'[i] = Tx("Wrapper", v)
    <3> SUFFICES ASSUME NEW v \in Wrappers, replay_protection'[v] = "Write"
                 PROVE  \E i \in 1 .. next_tx : block[i] = Tx("Wrapper", v)
      BY <1>3, <1>5
    <3>1. CASE v = w
      BY <1>4, <1>5, <3>1
    <3>2. CASE v # w
      <4>1. replay_protection[v] = "Write"
        BY <1>2, <1>6, <3>2 DEF TypeOK
      <4> QED
        BY <1>5, <4>1 DEF Effects
    <3> QED
      BY <3>1, <3>2
  <2>2. \A x \in Inners : applied'[x] # committed'.applied[x] =>
           replay_protection'[x] = "Write"
    BY <1>2, <1>3, <1>4, <1>5, <1>6, SMTT(30) DEF Effects, TypeOK
  <2>3. \A v \in Wrappers : charged'[v] # committed'.charged[v] =>
           replay_protection'[v] = "Write"
    BY <1>2, <1>3, <1>4, <1>5, <1>6 DEF Effects, TypeOK
  <2> QED
    BY <2>1, <2>2, <2>3 DEF Effects
<1>13. \A h \in Hashes : replay_protection[h] = "Write" => replay_protection'[h] = "Write"
  BY <1>2, <1>6 DEF TypeOK
<1>14. Alignment'
  <2>1. /\ tx_queue \in Seq(Wrappers) /\ Len(tx_queue) \in Nat
        /\ queue \in Seq(Wrappers) /\ Len(queue) \in Nat
    BY <1>6 DEF TypeOK
  <2>2. \A h : Covered(h)' = Covered(h)
    BY <1>3 DEF Covered
  <2>3. \A j \in 1 .. Len(tx_queue) : tx_queue[j] \in Hashes
    BY <2>1, SMTT(30)
  <2>4. CASE tx_queue' = tx_queue
    BY <1>3, <1>5, <1>13, <2>1, <2>2, <2>3, <2>4 DEF Alignment
  <2>5. CASE tx_queue' = Append(tx_queue, w)
    <3>1. /\ Len(tx_queue') = Len(tx_queue) + 1
          /\ tx_queue'[Len(tx_queue) + 1] = w
          /\ \A j \in 1 .. Len(tx_queue) : tx_queue'[j] = tx_queue[j]
      BY <2>1, <2>5
    <3>2. \A j \in 1 .. Len(tx_queue) : Done + j > Len(queue) => tx_queue[j] # w
      BY <1>4, <1>5 DEF Alignment
    <3>3. Done + Len(tx_queue) + 1 > Len(queue)
      BY <1>5, <2>1 DEF Alignment
    <3>4. replay_protection'[w] = "Write"
      BY <1>2, <1>4, <1>6 DEF TypeOK
    <3>5. \A j \in 1 .. Len(tx_queue') :
            j \in 1 .. Len(tx_queue) \/ j = Len(tx_queue) + 1
      BY <2>1, <3>1
    <3>6. \A j \in 1 .. Len(tx_queue') :
            Done' + j <= Len(queue') => tx_queue'[j] = queue'[Done' + j]
      <4> SUFFICES ASSUME NEW j \in 1 .. Len(tx_queue'), Done' + j <= Len(queue')
                   PROVE  tx_queue'[j] = queue'[Done' + j]
        OBVIOUS
      <4>1. j \in 1 .. Len(tx_queue) /\ Done + j <= Len(queue)
        BY <1>3, <1>5, <2>1, <3>3, <3>5
      <4> QED
        BY <1>3, <1>5, <3>1, <4>1 DEF Alignment
    <3>7. \A j \in 1 .. Len(tx_queue') : Done' + j > Len(queue') =>
            /\ replay_protection'[tx_queue'[j]] = "Write"
            /\ Inner[tx_queue'[j]] \notin last' \cup all'
      <4> SUFFICES ASSUME NEW j \in 1 .. Len(tx_queue'), Done' + j > Len(queue')
                   PROVE  /\ replay_protection'[tx_queue'[j]] = "Write"
                          /\ Inner[tx_queue'[j]] \notin last' \cup all'
        OBVIOUS
      <4>1. CASE j = Len(tx_queue) + 1
        BY <1>3, <1>4, <3>1, <3>4, <4>1 DEF Covered
      <4>2. CASE j \in 1 .. Len(tx_queue)
        <5>1. tx_queue'[j] = tx_queue[j] /\ tx_queue[j] \in Hashes
          BY <2>3, <3>1, <4>2
        <5>2. Done + j > Len(queue)
          BY <1>3, <1>5
        <5>3. replay_protection[tx_queue[j]] = "Write" /\ ~Covered(Inner[tx_queue[j]])
          BY <1>5, <4>2, <5>2 DEF Alignment
        <5> QED
          BY <1>3, <1>13, <5>1, <5>3 DEF Covered
      <4> QED
        BY <3>5, <4>1, <4>2
    <3>8. \A i, j \in 1 .. Len(tx_queue') :
            (Done' + i > Len(queue') /\ Done' + j > Len(queue')
               /\ tx_queue'[i] = tx_queue'[j]) => i = j
      BY <1>3, <1>5, <3>1, <3>2, <3>5, SMTT(30) DEF Alignment
    <3>9. Done' <= Len(queue') /\ Len(queue') <= Done' + Len(tx_queue')
      BY <1>3, <1>5, <2>1, <3>1 DEF Alignment
    <3> QED
      BY <3>6, <3>7, <3>8, <3>9 DEF Alignment, Covered
  <2> QED
    BY <1>2, <2>4, <2>5
<1>15. Idle' /\ InBlock'
  BY <1>5, <1>11, <1>12, <1>14 DEF Idle, InBlock
<1> QED
  BY <1>5, <1>8, <1>10, <1>15 DEF IInv

(* Taking the head off the queue in memory keeps it aligned, if the        *)
(* written hashes of this block's wrappers stay.                           *)
LEMMA PopAligns ==
    ASSUME IInv, NEW code, Handles("Decrypted", code), Pop,
           \A v \in Wrappers :
              replay_protection[v] = "Write" => replay_protection'[v] = "Write"
    PROVE  Alignment' /\ tx_queue' \in Seq(Wrappers)
<1>1. /\ tx_queue # <<>> /\ Done + 1 <= Len(queue)
  BY DecryptedIsHead
<1>2. tx_queue' = Tail(tx_queue)
  BY <1>1 DEF Pop
<1>3. /\ Done \in Nat /\ Done' = Done + 1 /\ Alignment
      /\ queue' = queue /\ last' = last /\ all' = all
  BY HandlesOk DEF Handles
<1>4. /\ tx_queue \in Seq(Wrappers) /\ Len(tx_queue) \in Nat
      /\ queue \in Seq(Wrappers) /\ Len(queue) \in Nat
  BY DEF IInv, TypeOK
<1>5. /\ tx_queue' \in Seq(Wrappers) /\ Len(tx_queue') = Len(tx_queue) - 1
      /\ \A j \in 1 .. Len(tx_queue') :
            /\ j + 1 \in 1 .. Len(tx_queue)
            /\ tx_queue'[j] = tx_queue[j + 1]
            /\ tx_queue[j + 1] \in Wrappers
            /\ Done' + j = Done + (j + 1)
  BY <1>1, <1>2, <1>3, <1>4
<1>6. Done' <= Len(queue') /\ Len(queue') <= Done' + Len(tx_queue')
  BY <1>1, <1>3, <1>4, <1>5 DEF Alignment
<1>7. \A j \in 1 .. Len(tx_queue') :
        Done' + j <= Len(queue') => tx_queue'[j] = queue'[Done' + j]
  BY <1>3, <1>5 DEF Alignment
<1>8. \A j \in 1 .. Len(tx_queue') : Done' + j > Len(queue') =>
        /\ replay_protection'[tx_queue'[j]] = "Write"
        /\ Inner[tx_queue'[j]] \notin last' \cup all'
  <2> SUFFICES ASSUME NEW j \in 1 .. Len(tx_queue'), Done' + j > Len(queue')
               PROVE  /\ replay_protection'[tx_queue'[j]] = "Write"
                      /\ Inner[tx_queue'[j]] \notin last' \cup all'
    OBVIOUS
  <2>1. j + 1 \in 1 .. Len(tx_queue) /\ Done + (j + 1) > Len(queue)
    BY <1>3, <1>5
  <2>2. /\ replay_protection[tx_queue[j + 1]] = "Write"
        /\ Inner[tx_queue[j + 1]] \notin last \cup all
    BY <1>3, <2>1 DEF Alignment, Covered
  <2> QED
    BY <1>3, <1>5, <2>2, SMTT(30)
<1>9. \A i, j \in 1 .. Len(tx_queue') :
        (Done' + i > Len(queue') /\ Done' + j > Len(queue')
           /\ tx_queue'[i] = tx_queue'[j]) => i = j
  <2> SUFFICES ASSUME NEW i \in 1 .. Len(tx_queue'), NEW j \in 1 .. Len(tx_queue'),
                      Done' + i > Len(queue'), Done' + j > Len(queue'),
                      tx_queue'[i] = tx_queue'[j]
               PROVE  i = j
    OBVIOUS
  <2>1. /\ i + 1 \in 1 .. Len(tx_queue) /\ j + 1 \in 1 .. Len(tx_queue)
        /\ Done + (i + 1) > Len(queue) /\ Done + (j + 1) > Len(queue)
    BY <1>3, <1>5
  <2>2. tx_queue[i + 1] = tx_queue[j + 1]
    BY <1>5
  <2>3. i + 1 = j + 1
    BY <1>3, <2>1, <2>2, SMTT(30) DEF Alignment
  <2> QED
    BY <1>4, <1>5, <2>3
<1> QED
  BY <1>5, <1>6, <1>7, <1>8, <1>9 DEF Alignment, Covered

(* The hash of the wrapper whose transaction is handled is one of the last *)
(* block, and nobody has deleted it.                                       *)
LEMMA HeadIsFinalized ==
    ASSUME IInv, NEW code, Handles("Decrypted", code)
    PROVE  Head(tx_queue) \in last /\ replay_protection[Head(tx_queue)] = "Finalize"
<1> DEFINE w == Head(tx_queue)
<1>1. /\ Done + 1 <= Len(queue) /\ w = queue[Done + 1] /\ w \in Wrappers
  BY DecryptedIsHead
<1>2. Done \in Nat /\ Requests
  BY HandlesOk
<1>3. queue \in Seq(Wrappers) /\ Len(queue) \in Nat /\ w \in Hashes
  <2>1. TypeOK
    BY DEF IInv
  <2>2. queue \in Seq(Wrappers) /\ Len(queue) \in Nat
    BY <2>1 DEF TypeOK
  <2>3. w \in Hashes
    BY <1>1, TxPipelineAssumption DEF TxPipelineAssumption
  <2> QED
    BY <2>2, <2>3
<1>4. w \in last
  BY <1>1, <1>2, <1>3 DEF IInv, AtRest
<1>5. replay_protection[w] \in {"Finalize", "Delete"}
  BY <1>2, <1>4 DEF Requests
<1>6. replay_protection[w] # "Delete"
  <2> SUFFICES ASSUME replay_protection[w] = "Delete" PROVE FALSE
    OBVIOUS
  <2>1. PICK j \in 1 .. Done : queue[j] = w
    BY <1>2, <1>3 DEF Requests
  <2>2. j \in 1 .. Len(queue) /\ Done + 1 \in 1 .. Len(queue) /\ j # Done + 1
    BY <1>1, <1>2, <1>3
  <2> QED
    BY <1>1, <2>1, <2>2 DEF IInv, AtRest
<1> QED
  BY <1>4, <1>5, <1>6

(* What is left to show of a step that handles a decrypted transaction.    *)
LEMMA DecryptedInv ==
    ASSUME IInv, NEW code, Handles("Decrypted", code), Pop,
           \A v \in Wrappers :
              replay_protection[v] = "Write" => replay_protection'[v] = "Write",
           replay_protection' \in [Hashes -> {"None", "Write", "Delete", "Finalize"}],
           panicked' = FALSE,
           applied' \in [Inners -> Nat], AppliedOnce',
           Requests', Effects'
    PROVE  IInv'
<1>1. /\ Accepted' /\ Complete' /\ AtRest' /\ next_tx' <= Len(block') + 1
      /\ phase' = "execute"
  BY HandlesOk
<1>2. Alignment' /\ tx_queue' \in Seq(Wrappers)
  BY PopAligns
<1>3. TypeOK'
  <2>1. /\ UNCHANGED <<last, all, queue, phase, block, committed, crashes, charged>>
        /\ next_tx' = next_tx + 1
    BY DEF Handles, Pop
  <2>2. panicked' \in BOOLEAN
    OBVIOUS
  <2> QED
    BY <1>2, <2>1, <2>2 DEF IInv, TypeOK
<1>4. NoPanic' /\ ChargedOnce'
  BY DEF IInv, NoPanic, ChargedOnce, Pop
<1>5. Idle' /\ InBlock'
  BY <1>1, <1>2 DEF Idle, InBlock
<1> QED
  BY <1>1, <1>3, <1>4, <1>5 DEF IInv

(* A step that leaves the requests alone keeps what they say, the handled  *)
(* prefix of the block only grows.                                         *)
LEMMA SameRequests ==
    ASSUME IInv, NEW code, Handles("Decrypted", code), Pop,
           UNCHANGED <<replay_protection, applied>>
    PROVE  Requests' /\ Effects'
<1>1. /\ Done \in Nat /\ Done' = Done + 1 /\ Requests /\ Effects
      /\ next_tx' = next_tx + 1 /\ next_tx \in 1 .. Len(block)
      /\ UNCHANGED <<last, queue, block, committed, charged>>
  BY HandlesOk DEF Handles, Pop
<1>2. Requests'
  <2>1. /\ \A h \in Hashes : replay_protection'[h] = "Finalize" => h \in last'
        /\ \A h \in Hashes : replay_protection'[h] = "Write" => h \notin last'
        /\ \A h \in last' : replay_protection'[h] \in {"Finalize", "Delete"}
    BY <1>1 DEF Requests
  <2>2. ASSUME NEW h \in Hashes, replay_protection'[h] = "Delete"
        PROVE  /\ h \in Wrappers
               /\ replay_protection'[Inner[h]] \in {"Write", "Finalize"}
               /\ \E j \in 1 .. Done' : queue'[j] = h
    <3>1. /\ h \in Wrappers
          /\ replay_protection[Inner[h]] \in {"Write", "Finalize"}
          /\ \E j \in 1 .. Done : queue[j] = h
      BY <1>1, <2>2 DEF Requests
    <3>2. PICK j \in 1 .. Done : queue[j] = h
      BY <3>1
    <3>3. j \in 1 .. Done' /\ queue'[j] = h
      BY <1>1, <3>2
    <3> QED
      BY <3>1, <3>3
  <2> QED
    BY <2>1, <2>2 DEF Requests
<1>3. Effects'
  BY <1>1 DEF Effects
<1> QED
  BY <1>2, <1>3

(* A decrypted transaction that is skipped. *)
LEMMA SkipDecryptedInv == IInv /\ SkipDecrypted => IInv'
<1> SUFFICES ASSUME IInv, SkipDecrypted PROVE IInv'
  OBVIOUS
<1>1. \E code : Handles("Decrypted", code)
  BY DEF SkipDecrypted
<1>2. tx_queue # <<>>
  BY <1>1, DecryptedIsHead
<1>3. panicked' = FALSE
  BY <1>2 DEF SkipDecrypted
<1>4. Pop /\ UNCHANGED <<replay_protection, applied>>
  BY DEF SkipDecrypted
<1>5. Requests' /\ Effects'
  BY <1>1, <1>4, SameRequests
<1>6. AppliedOnce' /\ applied' \in [Inners -> Nat]
      /\ replay_protection' \in [Hashes -> {"None", "Write", "Delete", "Finalize"}]
  BY <1>4 DEF IInv, AppliedOnce, TypeOK
<1> QED
  BY <1>1, <1>3, <1>4, <1>5, <1>6, DecryptedInv

(* A decrypted transaction that is executed: recognised as a replay, left  *)
(* for another try, or committed together with its hash.                   *)
LEMMA FinalizeDecryptedInv ==
    ASSUME IInv, NEW result, FinalizeDecrypted(result)
    PROVE  IInv'
<1> DEFINE x == block[next_tx].hash
           w == Head(tx_queue)
<1>1. Handles("Decrypted", "Ok") /\ Pop
  BY DEF FinalizeDecrypted
<1>2. /\ w \in Wrappers /\ x = Inner[w] /\ x \in Inners /\ w = queue[Done + 1]
      /\ Done + 1 <= Len(queue) /\ w \in Hashes /\ x \in Hashes
      /\ w # x /\ w \notin Inners /\ x \notin Wrappers
  BY <1>1, DecryptedIsHead, TxPipelineAssumption DEF TxPipelineAssumption
<1>3. w \in last /\ replay_protection[w] = "Finalize"
  BY <1>1, HeadIsFinalized, SMTT(30)
<1>4. /\ Done \in Nat /\ Done' = Done + 1 /\ Requests /\ Effects
      /\ next_tx' = next_tx + 1 /\ next_tx \in 1 .. Len(block)
      /\ UNCHANGED <<last, all, queue, block, committed, charged>>
  BY <1>1, HandlesOk DEF Handles, Pop
<1>5. /\ replay_protection \in [Hashes -> {"None", "Write", "Delete", "Finalize"}]
      /\ applied \in [Inners -> Nat] /\ last \subseteq Hashes
      /\ queue \in Seq(Wrappers) /\ Len(queue) \in Nat /\ AppliedOnce
      /\ panicked = FALSE
  BY DEF IInv, TypeOK, NoPanic
<1>6. /\ \A v \in Wrappers : /\ v \in Hashes
                              /\ Inner[v] \in Inners /\ Inner[v] \in Hashes /\ Inner[v] # w
      /\ \A y \in Inners : y \in Hashes /\ y # w
  BY <1>2, TxPipelineAssumption DEF TxPipelineAssumption
<1>7. CASE HasReplayProtectionEntry(x)
  <2>1. /\ replay_protection' = [replay_protection EXCEPT ![w] = "Delete"]
        /\ panicked' = (replay_protection[w] \in {"Write", "Delete"})
        /\ applied' = applied
    BY <1>7 DEF FinalizeDecrypted, DeleteTxHash, DeleteTxHashFails
  <2>2. panicked' = FALSE
    <3> DEFINE fails == replay_protection[w] \in {"Write", "Delete"}
    <3>1. ~fails
      BY <1>3
    <3>2. panicked' = fails
      BY <2>1
    <3> HIDE DEF fails
    <3> QED
      BY <3>1, <3>2
  <2> HIDE DEF w, x
  <2>3. /\ replay_protection' \in [Hashes -> {"None", "Write", "Delete", "Finalize"}]
        /\ replay_protection'[w] = "Delete"
        /\ \A h \in Hashes : h # w => replay_protection'[h] = replay_protection[h]
    BY <1>2, <1>5, <2>1
  <2>4. Requests'
    <3>1. \A h \in Hashes : replay_protection'[h] = "Finalize" => h \in last
      BY <1>4, <2>3 DEF Requests
    <3>2. \A h \in Hashes : replay_protection'[h] = "Write" => h \notin last
      BY <1>4, <2>3 DEF Requests
    <3>3. \A h \in last : replay_protection'[h] \in {"Finalize", "Delete"}
      BY <1>4, <1>5, <2>3 DEF Requests
    <3>4. \A h \in Hashes : replay_protection'[h] = "Delete" =>
            /\ h \in Wrappers
            /\ replay_protection'[Inner[h]] \in {"Write", "Finalize"}
            /\ \E j \in 1 .. Done' : queue[j] = h
      <4> SUFFICES ASSUME NEW h \in Hashes, replay_protection'[h] = "Delete"
                   PROVE  /\ h \in Wrappers
                          /\ replay_protection'[Inner[h]] \in {"Write", "Finalize"}
                          /\ \E j \in 1 .. Done' : queue[j] = h
        OBVIOUS
      <4>1. CASE h = w
        BY <1>2, <1>4, <1>7, <2>3, <4>1 DEF HasReplayProtectionEntry
      <4>2. CASE h # w
        <5>1. replay_protection[h] = "Delete"
          BY <2>3, <4>2
        <5>2. /\ h \in Wrappers /\ \E j \in 1 .. Done : queue[j] = h
              /\ replay_protection[Inner[h]] \in {"Write", "Finalize"}
          BY <1>4, <5>1 DEF Requests
        <5> QED
          BY <1>4, <1>6, <2>3, <5>2
      <4> QED
        BY <4>1, <4>2
    <3> QED
      BY <1>4, <3>1, <3>2, <3>3, <3>4 DEF Requests
  <2>5. Effects'
    <3>1. \A v \in Wrappers : replay_protection'[v] = "Write" =>
             replay_protection[v] = "Write"
      BY <1>2, <1>6, <2>3
    <3>2. \A y \in Inners : y \in Hashes /\ y # w
      BY <1>2, <1>6, SMTT(30)
    <3>3. \A v \in Wrappers : charged[v] # committed.charged[v] => v # w
      BY <1>3, <1>4 DEF Effects
    <3>4. \A v \in Wrappers : v \in Hashes
      BY TxPipelineAssumption DEF TxPipelineAssumption
    <3> QED
      BY <1>4, <2>1, <2>3, <3>1, <3>2, <3>3, <3>4 DEF Effects
  <2>6. \A v \in Wrappers : replay_protection[v] = "Write" => replay_protection'[v] = "Write"
    BY <1>3, <1>6, <2>3
  <2>7. AppliedOnce' /\ applied' \in [Inners -> Nat]
    BY <1>5, <2>1 DEF AppliedOnce
  <2> QED
    BY <1>1, <2>2, <2>3, <2>4, <2>5, <2>6, <2>7, DecryptedInv
<1>8. CASE ~HasReplayProtectionEntry(x) /\ result = "retry"
  <2>1. UNCHANGED <<replay_protection, panicked, applied>>
    BY <1>8 DEF FinalizeDecrypted
  <2>2. Requests' /\ Effects'
    BY <1>1, <2>1, SameRequests
  <2>3. AppliedOnce' /\ applied' \in [Inners -> Nat] /\ panicked' = FALSE
    BY <1>5, <2>1 DEF AppliedOnce
  <2> QED
    BY <1>1, <1>5, <2>1, <2>2, <2>3, DecryptedInv
<1>9. CASE ~HasReplayProtectionEntry(x) /\ result # "retry"
  <2>1. replay_protection[x] = "None"
    <3>1. replay_protection[x] # "Delete"
      BY <1>2, <1>4 DEF Requests
    <3> QED
      BY <1>2, <1>5, <1>9, <3>1 DEF HasReplayProtectionEntry
  <2>2. /\ replay_protection' = [[replay_protection EXCEPT ![x] = "Write"]
                                   EXCEPT ![w] = "Delete"]
        /\ panicked' = \/ replay_protection[x] # "None"
                       \/ [replay_protection EXCEPT ![x] = "Write"][w] \in {"Write", "Delete"}
        /\ applied' = IF result = "accepted" THEN [applied EXCEPT ![x] = @ + 1]
                      ELSE applied
    <3>1. /\ CommitInnerTxHash(w)
          /\ applied' = IF result = "accepted" THEN [applied EXCEPT ![x] = @ + 1]
                        ELSE applied
      BY <1>9 DEF FinalizeDecrypted
    <3>2. Inner[w] = x
      BY <1>2
    <3> QED
      BY <3>1, <3>2 DEF CommitInnerTxHash, WriteTxHash, WriteTxHashFails,
                        DeleteTxHash, DeleteTxHashFails
  <2> HIDE DEF w, x
  <2>3. panicked' = FALSE
    BY <1>2, <1>3, <1>5, <2>1, <2>2
  <2>4. /\ replay_protection' \in [Hashes -> {"None", "Write", "Delete", "Finalize"}]
        /\ replay_protection'[w] = "Delete" /\ replay_protection'[x] = "Write"
        /\ \A h \in Hashes : h # w /\ h # x =>
              replay_protection'[h] = replay_protection[h]
    BY <1>2, <1>5, <2>2, SMTT(30)
  <2>5. x \notin last
    BY <1>4, <2>1 DEF Requests
  <2>6. Requests'
    <3>1. \A h \in Hashes : replay_protection'[h] = "Finalize" => h \in last
      BY <1>4, <2>4 DEF Requests
    <3>2. \A h \in Hashes : replay_protection'[h] = "Write" => h \notin last
      BY <1>4, <2>4, <2>5 DEF Requests
    <3>3. \A h \in last : replay_protection'[h] \in {"Finalize", "Delete"}
      <4> SUFFICES ASSUME NEW h \in last
                   PROVE  replay_protection'[h] \in {"Finalize", "Delete"}
        OBVIOUS
      <4>1. h \in Hashes /\ h # x /\ replay_protection[h] \in {"Finalize", "Delete"}
        BY <1>4, <1>5, <2>5 DEF Requests
      <4> QED
        BY <2>4, <4>1
    <3>4. \A h \in Hashes : replay_protection'[h] = "Delete" =>
            /\ h \in Wrappers
            /\ replay_protection'[Inner[h]] \in {"Write", "Finalize"}
            /\ \E j \in 1 .. Done' : queue[j] = h
      <4> SUFFICES ASSUME NEW h \in Hashes, replay_protection'[h] = "Delete"
                   PROVE  /\ h \in Wrappers
                          /\ replay_protection'[Inner[h]] \in {"Write", "Finalize"}
                          /\ \E j \in 1 .. Done' : queue[j] = h
        OBVIOUS
      <4>1. CASE h = w
        BY <1>2, <1>4, <2>4, <4>1
      <4>2. CASE h # w
        <5>1. replay_protection[h] = "Delete"
          BY <2>4, <4>2
        <5>2. /\ h \in Wrappers /\ \E j \in 1 .. Done : queue[j] = h
              /\ replay_protection[Inner[h]] \in {"Write", "Finalize"}
          BY <1>4, <5>1 DEF Requests
        <5>3. replay_protection'[Inner[h]] \in {"Write", "Finalize"}
          BY <1>6, <2>4, <5>2
        <5> QED
          BY <1>4, <5>2, <5>3
      <4> QED
        BY <4>1, <4>2
    <3> QED
      BY <1>4, <3>1, <3>2, <3>3, <3>4 DEF Requests
  <2>7. Effects'
    <3>1. \A v \in Wrappers : replay_protection'[v] = "Write" =>
             replay_protection[v] = "Write"
      BY <1>2, <1>6, <2>4, SMTT(30)
    <3>2. \A y \in Inners : applied'[y] # committed.applied[y] =>
             replay_protection'[y] = "Write"
      <4> SUFFICES ASSUME NEW y \in Inners, y # x, applied'[y] # committed.applied[y]
                   PROVE  replay_protection'[y] = "Write"
        BY <2>4
      <4>1. applied'[y] = applied[y] /\ y \in Hashes /\ y # w
        BY <1>2, <1>5, <1>6, <2>2, SMTT(30)
      <4> QED
        BY <1>4, <2>4, <4>1 DEF Effects
    <3>3. \A v \in Wrappers : charged[v] # committed.charged[v] => v # w /\ v # x
      BY <1>2, <1>3, <1>4 DEF Effects
    <3>4. \A v \in Wrappers : v \in Hashes
      BY TxPipelineAssumption DEF TxPipelineAssumption
    <3> QED
      BY <1>4, <2>4, <3>1, <3>2, <3>3, <3>4, SMTT(30) DEF Effects
  <2>8. \A v \in Wrappers : replay_protection[v] = "Write" => replay_protection'[v] = "Write"
    BY <1>2, <1>3, <1>6, <2>4
  <2>9. applied[x] = 0
    <3>1. applied[x] = committed.applied[x]
      BY <1>2, <1>4, <2>1 DEF Effects
    <3>2. x \notin all
      BY <1>2, <1>4, <1>5 DEF IInv, AtRest, QueuedNotInAll
    <3>3. ~(committed.applied[x] > 0)
      BY <1>2, <2>5, <3>2 DEF IInv, AtRest, Covered
    <3> QED
      BY <1>2, <1>5, <3>1, <3>3
  <2>10. AppliedOnce' /\ applied' \in [Inners -> Nat]
    BY <1>2, <1>5, <2>2, <2>9 DEF AppliedOnce
  <2> QED
    BY <1>1, <2>3, <2>4, <2>6, <2>7, <2>8, <2>10, DecryptedInv
<1> QED
  BY <1>7, <1>8, <1>9

(* Every step preserves the invariant. *)
LEMMA InvNext == IInv /\ [Next]_vars => IInv'
<1> SUFFICES ASSUME IInv, [Next]_vars PROVE IInv'
  OBVIOUS
<1>1. ASSUME NEW h \in Wrappers, ProposeWrapper(h) PROVE IInv'
  <2>1. Tx("Wrapper", h) \in Txs
    BY DEF Tx, Txs
  <2> QED
    BY <1>1, <2>1, ProposeInv DEF ProposeWrapper
<1>2. ASSUME NEW h \in Inners, ProposeDecrypted(h) PROVE IInv'
  <2>1. Tx("Decrypted", h) \in Txs
    BY DEF Tx, Txs
  <2> QED
    BY <1>2, <2>1, ProposeInv DEF ProposeDecrypted
<1>3. Execute => IInv'
  BY FinalizeWrapperInv, FinalizeDecryptedInv, SkipDecryptedInv DEF Execute
<1>4. UNCHANGED vars => IInv'
  <2> SUFFICES ASSUME UNCHANGED vars PROVE IInv'
    OBVIOUS
  <2> USE DEF vars, replay_vars
  <2>1. TypeOK' /\ NoPanic' /\ AppliedOnce' /\ ChargedOnce'
    BY DEF IInv, TypeOK, NoPanic, AppliedOnce, ChargedOnce
  <2>2. AtRest'
    BY RestStays
  <2>3. Accepted' /\ Complete'
    BY DecidedStays
  <2>4. Idle'
    BY DEF IInv, Idle
  <2>5. InBlock'
    <3>1. InBlock
      BY DEF IInv
    <3>2. Done' = Done
      BY DEF Done, Decrypted
    <3>3. Requests => Requests'
      BY <3>2 DEF Requests
    <3>4. Effects => Effects'
      BY DEF Effects
    <3>5. \A h : Covered(h)' = Covered(h)
      BY DEF Covered
    <3>6. Alignment => Alignment'
      BY <3>2, <3>5 DEF Alignment
    <3> QED
      BY <3>1, <3>3, <3>4, <3>6 DEF InBlock
  <2> QED
    BY <2>1, <2>2, <2>3, <2>4, <2>5 DEF IInv
<1> QED
  BY <1>1, <1>2, <1>3, <1>4, NextRoundInv, DecideInv, HonestRoundInv,
     BeginFinalizeInv, CrashInv, CommitInv DEF Next, Step

(* The inductive invariant. *)
LEMMA InvAlways == Spec => []IInv
  BY InvInit, InvNext, PTL DEF Spec

-----------------------------------------------------------------------------
(* The changes of an inner transaction are kept at most once, across all   *)
(* blocks, wrappers and restarts.                                          *)
THEOREM AppliedAtMostOnce == Spec => []AppliedOnce
<1>1. IInv => AppliedOnce
  BY DEF IInv
<1> QED
  BY <1>1, InvAlways, PTL

(* The fee of a wrapper is charged at most once. *)
THEOREM ChargedAtMostOnce == Spec => []ChargedOnce
<1>1. IInv => ChargedOnce
  BY DEF IInv
<1> QED
  BY <1>1, InvAlways, PTL

(* finalize_block never fails an `expect` on a replay protection request   *)
(* or on the queue.                                                        *)
THEOREM NeverPanics == Spec => []NoPanic
<1>1. IInv => NoPanic
  BY DEF IInv
<1> QED
  BY <1>1, InvAlways, PTL

(* Whoever was charged is refused from then on. *)
THEOREM ChargedAreRefused == Spec => []ChargedIsRefused
<1>1. IInv => ChargedIsRefused
  BY DEF IInv, AtRest
<1> QED
  BY <1>1, InvAlways, PTL

(* The write log is the right place for apply_wasm_tx to look for hashes.  *)
THEOREM QueuedNeverInAll == Spec => []QueuedNotInAll
<1>1. IInv => QueuedNotInAll
  BY DEF IInv, AtRest
<1> QED
  BY <1>1, InvAlways, PTL

(* Hashes of inner transactions are never forgotten. *)
THEOREM InnerHashesStay == Spec => InnerHashKept
<1>1. IInv /\ [Next]_vars =>
        [\A x \in Inners : HasCommittedReplayProtectionEntry(x)
                             => HasCommittedReplayProtectionEntry(x)']_vars
  <2> SUFFICES ASSUME IInv, Next, NEW x \in Inners,
                      HasCommittedReplayProtectionEntry(x)
               PROVE  HasCommittedReplayProtectionEntry(x)'
    OBVIOUS
  <2>1. CASE Commit
    BY <2>1, CommitKeeps DEF Covered, HasCommittedReplayProtectionEntry
  <2>2. CASE UNCHANGED <<last, all>>
    BY <2>2, SMTT(30) DEF HasCommittedReplayProtectionEntry
  <2>3. Step => UNCHANGED <<last, all>>
    BY DEF Step, ProposeWrapper, ProposeDecrypted, Propose, NextRound, Decide,
           HonestRound, BeginFinalize, FinalizeTxHashes, Execute,
           FinalizeWrapper, FinalizeDecrypted, SkipDecrypted, Handles, Crash,
           replay_vars
  <2> QED
    BY <2>1, <2>2, <2>3 DEF Next
<1> QED
  BY <1>1, InvAlways, PTL DEF Spec, InnerHashKept

=============================================================================
