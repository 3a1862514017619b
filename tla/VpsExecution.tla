---------------------------- MODULE VpsExecution ----------------------------
(***************************************************************************)
(* execute_vps of shared/src/ledger/protocol/mod.rs runs the validity      *)
(* predicates of a transaction in parallel: the verifiers are folded in    *)
(* contiguous parts (try_fold) and the parts reduced (try_reduce) as       *)
(* rayon's threads come to them, and the first error stops the rest.  The  *)
(* gas of the parts is joined by VpsGas of core/src/ledger/gas.rs.  Every  *)
(* node has its own schedule and all must come to the same result.         *)
(*                                                                         *)
(* A validity predicate is known by its place in the ordered set of        *)
(* verifiers, what it answers and the gas it takes.                        *)
(***************************************************************************)
EXTENDS Integers, Sequences, SequencesExt, FiniteSetsExt

CONSTANTS
    NumVps,       \* verifiers of the transaction
    Answers,      \* among "accept", "reject", "invalid_sig", "error", "missing"
    GasCosts,     \* gas one validity predicate may take
    GasLeft       \* gas limit of the transaction less what it has used

ASSUME VpsExecutionAssumption ==
    /\ NumVps \in Nat \ {0} /\ GasLeft \in Nat /\ GasCosts \subseteq Nat
    /\ Answers \subseteq {"accept", "reject", "invalid_sig", "error", "missing"}

VARIABLES
    answer, gas,   \* of every validity predicate
    parts,         \* parts of the verifiers, in order
    full           \* an error has been found

vars == <<answer, gas, parts, full>>

PARALLEL_GAS_DIVIDER == 10

Vps == 1 .. NumVps

(* VpsResult, with VpsGas in max and rest; err is "None" or the error that *)
(* takes its place.                                                        *)
DefaultResult ==
    [err |-> "None", accepted_vps |-> {}, rejected_vps |-> {}, errors |-> <<>>,
     invalid_sig |-> FALSE, max |-> 0, rest |-> <<>>]

Error(e) == [DefaultResult EXCEPT !.err = e]

-----------------------------------------------------------------------------
(* VpsGas *)

Total(gases) == FoldLeft(LAMBDA a, b : a + b, 0, gases)

(* get_current_gas *)
CurrentGas(r) == r.max + Total(r.rest) \div PARALLEL_GAS_DIVIDER

(* check_limit *)
CheckLimit(r) == IF CurrentGas(r) > GasLeft THEN Error("GasError") ELSE r

(* set *)
SetGas(r, g) ==
    CheckLimit(IF g > r.max THEN [r EXCEPT !.rest = Append(@, r.max), !.max = g]
                            ELSE [r EXCEPT !.rest = Append(@, g)])

(* Mutant: the smaller of the two maxima is lost. *)
MergeGasLosesMax(a, b) ==
    LET joined == [a EXCEPT !.max = IF a.max < b.max THEN b.max ELSE a.max,
                            !.rest = @ \o b.rest]
    IN  CheckLimit(joined)

(* merge *)
MergeGas(a, b) ==
    LET joined ==
          IF a.max < b.max
            THEN [a EXCEPT !.rest = Append(@, a.max) \o b.rest, !.max = b.max]
            ELSE [a EXCEPT !.rest = Append(@, b.max) \o b.rest]
    IN  CheckLimit(joined)

-----------------------------------------------------------------------------
(* The closures of try_fold and try_reduce *)

(* One more validity predicate.  A wasm run that takes more than the gas   *)
(* left is stopped with a gas error; an address without validity predicate *)
(* returns from the closure; all other errors are recorded.                *)
RunVp(r, v) ==
    IF gas[v] > GasLeft THEN Error("GasError")
    ELSE IF answer[v] = "missing" THEN Error("MissingAddress")
    ELSE SetGas(CASE answer[v] = "accept" -> [r EXCEPT !.accepted_vps = @ \cup {v}]
                  [] answer[v] = "reject" -> [r EXCEPT !.rejected_vps = @ \cup {v}]
                  [] answer[v] = "invalid_sig" ->
                       [r EXCEPT !.rejected_vps = @ \cup {v}, !.invalid_sig = TRUE]
                  [] answer[v] = "error" ->
                       [r EXCEPT !.rejected_vps = @ \cup {v},
                                 !.errors = Append(@, v)],
                gas[v])

(* merge_vp_results *)
MergeVpResults(a, b) ==
    MergeGas([a EXCEPT !.accepted_vps = @ \cup b.accepted_vps,
                       !.rejected_vps = @ \cup b.rejected_vps,
                       !.errors = @ \o b.errors,
                       !.invalid_sig = @ \/ b.invalid_sig],
             b)

(* try_reduce of two results: the error on the left wins. *)
Reduced(a, b) ==
    IF a.err # "None" THEN a
    ELSE IF b.err # "None" THEN b
    ELSE MergeVpResults(a, b)

-----------------------------------------------------------------------------
(* rayon *)

Part(first, last) ==
    [next |-> first, last |-> last, fresh |-> TRUE, done |-> FALSE,
     result |-> DefaultResult]

Init ==
    /\ answer \in [Vps -> Answers]
    /\ gas \in [Vps -> GasCosts]
    /\ parts = <<Part(1, NumVps)>>
    /\ full = FALSE

(* A part that nobody has begun is halved. *)
Split(i) ==
    LET p == parts[i]
        mid == p.next + (p.last - p.next + 1) \div 2
    IN  /\ p.fresh /\ p.next < p.last
        /\ parts' = SubSeq(parts, 1, i - 1)
                      \o <<Part(p.next, mid - 1), Part(mid, p.last)>>
                      \o SubSeq(parts, i + 1, Len(parts))
        /\ UNCHANGED <<answer, gas, full>>

(* A thread runs the next validity predicate of a part. *)
Run(i) ==
    LET p == parts[i]
    IN  /\ ~p.done /\ p.next <= p.last /\ p.result.err = "None" /\ ~full
        /\ parts' = [parts EXCEPT ![i].result = RunVp(p.result, p.next),
                                  ![i].next = p.next + 1,
                                  ![i].fresh = FALSE]
        /\ UNCHANGED <<answer, gas, full>>

(* A part ends with its verifiers, with its own error, or because of an    *)
(* error elsewhere.  Its result is reduced with the default one.           *)
Finish(i) ==
    LET p == parts[i]
        result == Reduced(DefaultResult, p.result)
    IN  /\ ~p.done
        /\ p.next > p.last \/ p.result.err # "None" \/ full
        /\ parts' = [parts EXCEPT ![i].done = TRUE, ![i].fresh = FALSE,
                                  ![i].result = result]
        /\ full' = (full \/ result.err # "None")
        /\ UNCHANGED <<answer, gas>>

(* Two neighbours that have ended are reduced. *)
Reduce(i) ==
    /\ i < Len(parts) /\ parts[i].done /\ parts[i + 1].done
    /\ parts' = SubSeq(parts, 1, i - 1)
                  \o <<[parts[i] EXCEPT
                          !.result = Reduced(parts[i].result, parts[i + 1].result),
                          !.last = parts[i + 1].last]>>
                  \o SubSeq(parts, i + 2, Len(parts))
    /\ UNCHANGED <<answer, gas, full>>

Next == \E i \in 1 .. Len(parts) : Split(i) \/ Run(i) \/ Finish(i) \/ Reduce(i)

Spec == Init /\ [][Next]_vars

-----------------------------------------------------------------------------
(* Properties *)

(* The run on one thread. *)
OneThread ==
    LET upTo[v \in 0 .. NumVps] ==
          IF v = 0 THEN DefaultResult
          ELSE IF upTo[v - 1].err # "None" THEN upTo[v - 1]
          ELSE RunVp(upTo[v - 1], v)
    IN  Reduced(DefaultResult, upTo[NumVps])

Ended == Len(parts) = 1 /\ parts[1].done

(* What the rest of the ledger depends on: the verdict, the reason of      *)
(* failure, which decides whether the transaction may be submitted again,  *)
(* and the gas.                                                            *)
Essence(r) ==
    IF r.err # "None" THEN <<r.err>>
    ELSE <<r.accepted_vps, r.rejected_vps, r.errors, r.invalid_sig, CurrentGas(r)>>

(* The outcome does not depend on the schedule: it is that of the run on   *)
(* one thread, however the verifiers are divided and whichever part comes  *)
(* to an error first.                                                      *)
OutcomeIndependentOfSchedule ==
    Ended => Essence(parts[1].result) = Essence(OneThread)

(* "This allows to display a consistent VpsResult across all nodes": the   *)
(* whole VpsResult, which finalize_block puts into the event of the        *)
(* transaction, is the same on every node.                                 *)
ConsistentVpsResult == Ended => parts[1].result = OneThread

=============================================================================
