--------------------------- MODULE PolicyDeterminism ---------------------------
(***************************************************************************)
(* rtl/core/policy_determinism.v.  The accumulator temp_result is          *)
(* represented by the set of operands that went into it.                   *)
(***************************************************************************)
EXTENDS Naturals

CONSTANTS
    PolicyType      \* [operands -> 0 .. 3]: policy_data[7:0], 0 for the rest

VARIABLES
    current_state, cycle_counter, target_cycles, timeout_wait_cnt,
    internal_policy_data, temp_result, policy_result, policy_done, timeout_irq

NoData == "nothing"
DeadBeef == {"DEADBEEF"}

Init ==
    /\ current_state = "IDLE" /\ cycle_counter = 0 /\ target_cycles = 12
    /\ timeout_wait_cnt = 0 /\ internal_policy_data = NoData
    /\ temp_result = {} /\ policy_result = {}
    /\ policy_done = FALSE /\ timeout_irq = FALSE

Capped(n, max) == IF n < max THEN n ELSE max
Target(type, max) ==
    CASE type = 1 -> Capped(12, max)
      [] type = 2 -> Capped(24, max)
      [] type = 3 -> Capped(18, max)
      [] OTHER    -> max

Idle(start, data, det) ==
    /\ current_state = "IDLE"
    /\ current_state' = IF ~start THEN "IDLE" ELSE IF det THEN "START_EXEC" ELSE "EXECUTE"
    /\ internal_policy_data' = IF start THEN data ELSE internal_policy_data
    /\ cycle_counter' = IF start THEN 1 ELSE cycle_counter
    /\ policy_done' = FALSE /\ timeout_irq' = FALSE
    /\ UNCHANGED <<target_cycles, timeout_wait_cnt, temp_result, policy_result>>

\* Mutant: the accumulator is not cleared.
StartExecUncleared(data, max) ==
    /\ current_state = "START_EXEC"
    /\ current_state' = "EXECUTE"
    /\ cycle_counter' = 1
    /\ target_cycles' = Target(PolicyType[data], max)
    /\ UNCHANGED <<timeout_wait_cnt, internal_policy_data, policy_result,
                   temp_result, policy_done, timeout_irq>>

\* Only this state clears the accumulator, and only det_en leads here.
StartExec(data, max) ==
    /\ current_state = "START_EXEC"
    /\ current_state' = "EXECUTE"
    /\ temp_result' = {} /\ cycle_counter' = 1
    /\ target_cycles' = Target(PolicyType[data], max)
    /\ UNCHANGED <<timeout_wait_cnt, internal_policy_data, policy_result,
                   policy_done, timeout_irq>>

\* The maximum is looked at before the target.
Execute(det, max) ==
    LET late == det /\ cycle_counter >= max
        ends == ~late /\ cycle_counter >= IF det THEN target_cycles ELSE 20
    IN  /\ current_state = "EXECUTE"
        /\ current_state' = IF late THEN "TIMEOUT" ELSE IF ends THEN "FINALIZE" ELSE "EXECUTE"
        /\ cycle_counter' = cycle_counter + 1
        /\ temp_result' = temp_result \cup {internal_policy_data}
        /\ timeout_irq' = (timeout_irq \/ late)
        /\ UNCHANGED <<target_cycles, timeout_wait_cnt, internal_policy_data,
                       policy_result, policy_done>>

Finalize ==
    /\ current_state = "FINALIZE"
    /\ current_state' = "DONE"
    /\ temp_result' = temp_result \cup {internal_policy_data}
    /\ policy_result' = temp_result
    /\ policy_done' = TRUE
    /\ UNCHANGED <<cycle_counter, target_cycles, timeout_wait_cnt,
                   internal_policy_data, timeout_irq>>

\* Mutant: the error is reported one cycle shorter.
TimeoutShort ==
    LET last == timeout_wait_cnt >= 1 IN
    /\ current_state = "TIMEOUT"
    /\ current_state' = IF last THEN "DONE" ELSE "TIMEOUT"
    /\ policy_result' = DeadBeef /\ policy_done' = TRUE
    /\ timeout_irq' = ~last
    /\ timeout_wait_cnt' = IF last THEN 0 ELSE timeout_wait_cnt + 1
    /\ UNCHANGED <<cycle_counter, target_cycles, internal_policy_data, temp_result>>

\* Mutant: a timeout raises the interrupt only.
TimeoutNotDone ==
    LET last == timeout_wait_cnt >= 2 IN
    /\ current_state = "TIMEOUT"
    /\ current_state' = IF last THEN "DONE" ELSE "TIMEOUT"
    /\ policy_result' = DeadBeef
    /\ timeout_irq' = ~last
    /\ timeout_wait_cnt' = IF last THEN 0 ELSE timeout_wait_cnt + 1
    /\ UNCHANGED <<cycle_counter, target_cycles, internal_policy_data,
                   temp_result, policy_done>>

Timeout ==
    LET last == timeout_wait_cnt >= 2 IN
    /\ current_state = "TIMEOUT"
    /\ current_state' = IF last THEN "DONE" ELSE "TIMEOUT"
    /\ policy_result' = DeadBeef /\ policy_done' = TRUE
    /\ timeout_irq' = ~last
    /\ timeout_wait_cnt' = IF last THEN 0 ELSE timeout_wait_cnt + 1
    /\ UNCHANGED <<cycle_counter, target_cycles, internal_policy_data, temp_result>>

Done ==
    /\ current_state = "DONE"
    /\ current_state' = "IDLE"
    /\ policy_done' = FALSE
    /\ UNCHANGED <<cycle_counter, target_cycles, timeout_wait_cnt,
                   internal_policy_data, temp_result, policy_result, timeout_irq>>

Clock(start, data, det, max) ==
    \/ Idle(start, data, det)
    \/ StartExec(data, max)
    \/ Execute(det, max)
    \/ Finalize
    \/ Timeout
    \/ Done
=============================================================================
