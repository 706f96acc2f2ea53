----------------------------- MODULE FaultMonitor -----------------------------
(***************************************************************************)
(* rtl/security/fault_monitor.v: the watchdog, the fault latch, and the    *)
(* machine that raises irq_fault.  Of fault_status_reg only bits [3:0] are *)
(* kept; error_code always equals them.  In the code's one clocked block   *)
(* the last assignment wins: the write that clears a fault comes last.     *)
(***************************************************************************)
EXTENDS Naturals

CONSTANTS
    Limits,             \* values software gives the watchdog limit (0 = off)
    CounterRange        \* 2^32 in the code: the watchdog counter wraps there

VARIABLES
    current_state, fault_latch, latched_error_code, irq_fault, pipeline_halt,
    fault_code,                 \* fault_status_reg[3:0] and error_code
    watchdog_counter, watchdog_limit, watchdog_enabled, watchdog_trip,
    raised      \* history: codes of the faults since the last clear

Codes == {"NONE", "WATCHDOG", "ECC_SINGLE", "ECC_DOUBLE", "SOFT_EML",
          "SOFT_SNN", "HARD_NVM", "CSR_VIOLATION", "INSTR_FAULT"}

\* The limit after reset, 0x00FFFFFF, is not used before a write arms it.
Init ==
    /\ current_state = "IDLE" /\ fault_latch = FALSE
    /\ latched_error_code = "NONE" /\ fault_code = "NONE"
    /\ irq_fault = FALSE /\ pipeline_halt = FALSE
    /\ watchdog_counter = 0 /\ watchdog_limit = CounterRange - 1
    /\ watchdog_enabled = FALSE /\ watchdog_trip = FALSE
    /\ raised = {}

Clears(in) == in.clear                  \* 0x7CC written with bit 31
Arms(in)   == in.limit \in Limits       \* 0x7CD written

AnyFault(in) == in.soft \cup in.hard # {} \/ in.ecc \/ watchdog_trip \/ in.detected

ErrorCode(in) ==        \* a chain of priorities, as in the code
    LET bad == in.soft \cup in.hard IN
    IF watchdog_trip THEN "WATCHDOG"
    ELSE IF in.ecc /\ 0 \in bad THEN "ECC_SINGLE"
    ELSE IF in.ecc /\ 1 \in bad THEN "ECC_DOUBLE"
    ELSE IF 0 \in in.soft THEN "SOFT_EML"
    ELSE IF 1 \in in.soft THEN "SOFT_SNN"
    ELSE IF 2 \in in.hard THEN "HARD_NVM"
    ELSE IF in.detected /\ in.csr THEN "CSR_VIOLATION"
    ELSE IF in.detected THEN "INSTR_FAULT"     \* instr_fetch_active is 1
    ELSE "NONE"

\* Mutant: the watchdog counts only while a pipe is active.
WatchdogInverted(in) ==
    /\ watchdog_limit' = IF Arms(in) THEN in.limit ELSE watchdog_limit
    /\ watchdog_enabled' = IF Arms(in) THEN in.limit # 0 ELSE watchdog_enabled
    /\ watchdog_counter' = IF watchdog_enabled /\ in.active
                             THEN (watchdog_counter + 1) % CounterRange ELSE 0
    /\ watchdog_trip' =
          IF ~watchdog_enabled THEN FALSE
          ELSE \/ in.active /\ watchdog_counter >= watchdog_limit
               \/ watchdog_trip /\ ~Arms(in)

\* Arming again neither restarts a watchdog that counts nor keeps it from
\* tripping in that very cycle: the count comes after the write.
Watchdog(in) ==
    /\ watchdog_limit' = IF Arms(in) THEN in.limit ELSE watchdog_limit
    /\ watchdog_enabled' = IF Arms(in) THEN in.limit # 0 ELSE watchdog_enabled
    /\ watchdog_counter' = IF watchdog_enabled /\ ~in.active
                             THEN (watchdog_counter + 1) % CounterRange ELSE 0
    /\ watchdog_trip' =
          IF ~watchdog_enabled THEN FALSE
          ELSE \/ ~in.active /\ watchdog_counter >= watchdog_limit
               \/ watchdog_trip /\ ~Arms(in)

\* Mutant: the first fault's code is kept, and a clear does not reset it.
FirstCodeStays(in) ==
    /\ fault_latch' = (~Clears(in) /\ (fault_latch \/ AnyFault(in)))
    /\ latched_error_code' = IF AnyFault(in) /\ latched_error_code = "NONE"
                               THEN ErrorCode(in) ELSE latched_error_code
    /\ raised' = IF Clears(in) THEN {}
                 ELSE IF AnyFault(in) THEN raised \cup {ErrorCode(in)} ELSE raised

\* (In PIPELINE_HALT, fault_clr drops the latch even if a fault is present.)
Latch(in) ==
    LET drops == Clears(in) \/ (current_state = "PIPELINE_HALT" /\ in.fault_clr)
    IN  /\ fault_latch' = (~drops /\ (fault_latch \/ AnyFault(in)))
        /\ latched_error_code' = IF AnyFault(in) THEN ErrorCode(in)
                                 ELSE latched_error_code
        /\ raised' = IF drops THEN {}
                     ELSE IF AnyFault(in) THEN raised \cup {ErrorCode(in)}
                     ELSE raised

\* Mutant: the interrupt enable is taken for a mask.
EnableInverted(in) ==
    CASE current_state = "IDLE" /\ fault_latch /\ ~in.irq_enable -> "IRQ_ASSERT"
      [] current_state = "IRQ_ASSERT" /\ (in.fault_clr \/ pipeline_halt) -> "PIPELINE_HALT"
      [] current_state = "PIPELINE_HALT" /\ in.fault_clr -> "IDLE"
      [] OTHER -> current_state

NextState(in) ==
    CASE current_state = "IDLE" /\ fault_latch /\ in.irq_enable -> "IRQ_ASSERT"
      [] current_state = "IRQ_ASSERT" /\ (in.fault_clr \/ pipeline_halt) -> "PIPELINE_HALT"
      [] current_state = "PIPELINE_HALT" /\ in.fault_clr -> "IDLE"
      [] OTHER -> current_state

Machine(in) ==
    /\ current_state' = IF Clears(in) THEN "IDLE" ELSE NextState(in)
    /\ irq_fault' = CASE Clears(in) -> FALSE
                      [] current_state = "IRQ_ASSERT" /\ ~Clears(in) -> TRUE
                      [] current_state = "PIPELINE_HALT" /\ in.fault_clr -> FALSE
                      [] OTHER -> irq_fault
    /\ pipeline_halt' = CASE Clears(in) -> FALSE
                          [] current_state = "PIPELINE_HALT" /\ ~Clears(in) -> ~in.fault_clr
                          [] OTHER -> pipeline_halt

Clock(in) == Watchdog(in) /\ Latch(in) /\ Machine(in) /\ fault_code' = latched_error_code

TypeOK ==
    /\ current_state \in {"IDLE", "IRQ_ASSERT", "PIPELINE_HALT"}
    /\ {fault_latch, irq_fault, pipeline_halt, watchdog_enabled, watchdog_trip}
          \subseteq BOOLEAN
    /\ latched_error_code \in Codes /\ fault_code \in Codes
    /\ raised \subseteq Codes
    /\ watchdog_counter \in 0 .. CounterRange - 1
    /\ watchdog_limit \in 0 .. CounterRange - 1
=============================================================================
