------------------------------- MODULE XcewUnits -------------------------------
(***************************************************************************)
(* The accelerators behind the core's Xcew handshake, as                   *)
(* rtl/xcew_top_v1_1.v wires them: o_xcew_valid starts both EML paths      *)
(* whatever the opcode, and the done signal is chosen by the opcode of     *)
(* o_xcew_req, which stays after the operation.  SNN instructions answer   *)
(* through a clock-domain crossing and are not modelled here.              *)
(***************************************************************************)
EXTENDS Naturals

CONSTANTS
    Operands, Hash, Index, MaxDepth,    \* as in EmlUnit
    Operation, SignsDiffer,             \* as in EmlConstantTime
    PolicyType,                         \* as in PolicyDeterminism
    Modes       \* CSR settings: const_time_en, det_en, max_cycle_setting

ASSUME UnitsAssumption ==
    /\ Hash \in [Operands -> {Hash[x] : x \in Operands}]
    /\ Index \in [{Hash[x] : x \in Operands} -> {Index[Hash[x]] : x \in Operands}]
    /\ MaxDepth \in 0 .. 7
    /\ Operation \in {"NOP", "PASS"}        \* cfg[6:0] reads as 0
    /\ PolicyType \in [Operands -> 0 .. 3]
    /\ Modes \subseteq [const_time_en : BOOLEAN, det_en : BOOLEAN, max : 0 .. 15]

VARIABLES
    current_stage, fetch_operand, result_r, memo_hit_r, memo, depth_cnt,
    exc_depth, o_rd, o_valid, o_exc,                            \* eml_unit
    ct_state, rs_reg, ct_counter, padding_cycles, ct_rd, ct_valid,
    pol_state, cycle_counter, target_cycles, timeout_wait_cnt,
    internal_policy_data, temp_result, policy_result, policy_done, timeout_irq,
    xcew_pending, xcew_opcode, operand,     \* the core's side
    answer,         \* xcew_result after a completion, else NoAnswer
    mode,           \* the CSR settings, which the core does not change here
    masked,         \* so far timeout_irq was up only while the core was stalled
    accepted        \* history: operands the EML unit has accepted

eml    == <<current_stage, fetch_operand, result_r, memo_hit_r, memo,
            depth_cnt, exc_depth, o_rd, o_valid, o_exc>>
ct     == <<ct_state, rs_reg, ct_counter, padding_cycles, ct_rd, ct_valid>>
policy == <<pol_state, cycle_counter, target_cycles, timeout_wait_cnt,
            internal_policy_data, temp_result, policy_result, policy_done,
            timeout_irq>>
core   == <<xcew_pending, xcew_opcode, operand, answer, mode, masked, accepted>>
vars   == <<eml, ct, policy, core>>

Eml == INSTANCE EmlUnit
Ct  == INSTANCE EmlConstantTime
       WITH state <- ct_state, cycle_counter <- ct_counter,
            result_reg <- ct_rd, valid_out <- ct_valid
Pol == INSTANCE PolicyDeterminism WITH current_state <- pol_state

NoAnswer == <<>>

Init ==
    /\ Eml!Init /\ Ct!Init /\ Pol!Init
    /\ xcew_pending = FALSE /\ xcew_opcode = "none" /\ operand \in Operands
    /\ answer = NoAnswer /\ mode \in Modes /\ masked = TRUE /\ accepted = {}

core_xcew_done ==
    \/ xcew_opcode = "eml" /\ (IF mode.const_time_en THEN ct_valid ELSE o_valid)
    \/ xcew_opcode = "policy" /\ policy_done
    \/ xcew_opcode = "misc"

core_xcew_resp ==
    CASE xcew_opcode = "eml"    -> <<IF mode.const_time_en THEN ct_rd ELSE o_rd>>
      [] xcew_opcode = "policy" -> <<policy_result>>
      [] OTHER                  -> <<"zero">>

Completes == xcew_pending /\ core_xcew_done

\* What riscv_core does: one request at a time, its operand on the bus while
\* it is pending, and at least one cycle between two requests.
CoreClock(issue, op, x) ==
    /\ xcew_pending' = IF xcew_pending THEN ~core_xcew_done ELSE issue
    /\ xcew_opcode' = IF ~xcew_pending /\ issue THEN op ELSE xcew_opcode
    /\ operand' = IF ~xcew_pending /\ issue THEN x ELSE operand
    /\ answer' = IF Completes THEN core_xcew_resp ELSE NoAnswer

Tick(issue, op, x) ==
    /\ CoreClock(issue, op, x)
    /\ Eml!Clock(xcew_pending, operand)
    /\ Ct!Clock(xcew_pending, operand)
    /\ Pol!Clock(xcew_pending /\ xcew_opcode = "policy", operand,
                 mode.det_en, mode.max)
    /\ masked' = (~timeout_irq \/ (masked /\ xcew_pending))
    /\ accepted' = IF Eml!Accepts(xcew_pending) THEN accepted \cup {operand} ELSE accepted
    /\ UNCHANGED mode

Issue == \E op \in {"eml", "policy", "misc"}, x \in Operands :
            ~xcew_pending /\ Tick(TRUE, op, x)
Cycle == Tick(FALSE, xcew_opcode, operand)

Next == Issue \/ Cycle

Spec == Init /\ [][Next]_vars

\* The clock runs.
FairSpec == Spec /\ WF_vars(Next)

----------------------------------------------------------------------------
(* Properties *)

TypeOK ==
    /\ Eml!TypeOK
    /\ ct_state \in {"IDLE", "EXECUTE", "PAD", "FINALIZE", "STALL_BRANCH"}
    /\ pol_state \in {"IDLE", "START_EXEC", "EXECUTE", "FINALIZE", "TIMEOUT", "DONE"}
    /\ cycle_counter \in 0 .. 21 /\ timeout_wait_cnt \in 0 .. 2
    /\ xcew_opcode \in {"none", "eml", "policy", "misc"} /\ operand \in Operands
    /\ accepted \subseteq Operands
    /\ {xcew_pending, ct_valid, policy_done, timeout_irq, masked} \subseteq BOOLEAN

\* The memo cache holds results of operations the unit ran, each under the
\* hash of its operands: no entry is a result of another hash.
MemoSound ==
    \A s \in Eml!Slots : memo[s].valid =>
       /\ memo[s].data \in accepted
       /\ Hash[memo[s].data] = memo[s].tag
       /\ Index[memo[s].tag] = s

\* What the unit writes back was computed for the operation it accepted, or
\* for an earlier one with the same hash: the memo cache confuses no others.
ResultUpToHash ==
    current_stage = "WB" =>
       result_r \in accepted /\ Hash[result_r] = Hash[fetch_operand]

\* At most one operation is counted at a time, so the depth check, which
\* README.md promises as an exception, cannot fire.
NoDepthException == ~o_exc

\* A deterministic policy answers with its own data, or with the error code.
PolicyAnswerIsOwn ==
    answer # NoAnswer /\ xcew_opcode = "policy" /\ mode.det_en =>
       answer \in {<<Pol!DeadBeef>>, <<{operand}>>}

\* No unit leaks into another operation what an earlier one left in its
\* registers, its cache or its depth counter.
UnitsApart == TypeOK /\ MemoSound /\ PolicyAnswerIsOwn /\ NoDepthException

\* No accelerator keeps the core waiting for ever.
EveryRequestAnswered == [](xcew_pending => <>~xcew_pending)

\* The stalled core takes no interrupt; the timeout's pulse is still up in a
\* cycle after the stall, when it can.
TimeoutOutlivesStall ==
    [][timeout_irq /\ ~timeout_irq' => ~(masked /\ xcew_pending)]_vars

----------------------------------------------------------------------------
(* Deviations: what documents promise and the code does not do.            *)

\* An EML instruction returns the result for its own operands.  o_valid stays
\* up from the operation before, so it completes at once with that result.
EmlResultIsOwn ==
    answer # NoAnswer /\ xcew_opcode = "eml" /\ ~mode.const_time_en =>
       answer = <<operand>>

\* Without det_en the accumulator keeps what earlier policies left in it.
FreePolicyAnswerIsOwn ==
    answer # NoAnswer /\ xcew_opcode = "policy" => answer \in {<<Pol!DeadBeef>>, <<{operand}>>}

\* docs/test_program_v1.1.md: a policy runs to its target without a timeout.
PolicyMeetsTarget == ~timeout_irq
=============================================================================
