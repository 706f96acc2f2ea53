------------------------------ MODULE PowerFault ------------------------------
(***************************************************************************)
(* The power orchestrator and the fault monitor as rtl/xcew_top_v1_1.v     *)
(* wires them (with i_v1_1_en = 1).  Both run on clk_core_gated, the core  *)
(* clock that the orchestrator's own tile_sleep[CORE] stops.  The nets     *)
(* tile_activity_count, tile_wake_req_int and fault_detected_int have no   *)
(* driver: each build gives them some constant value.                      *)
(***************************************************************************)
EXTENDS Naturals

CONSTANTS
    Tiles, Core, Timeouts, Limits, CounterRange,    \* as in the two modules
    ErrorInputs,    \* an EML exception and the NVM's ECC outcome, as levels
    PinValues       \* the values a build can give the undriven nets

ASSUME CounterAssumption ==
    /\ Core \in Tiles
    /\ Timeouts \subseteq Nat /\ Limits \subseteq Nat /\ 0 \in Timeouts
    /\ CounterRange \in Nat
    /\ \A n \in Timeouts \cup Limits : n < CounterRange

ASSUME InputAssumption ==
    /\ ErrorInputs \subseteq SUBSET {"exc", "single", "double"}
    /\ PinValues \subseteq [activity : SUBSET Tiles, wake : SUBSET Tiles,
                            detected : BOOLEAN]

VARIABLES
    current_tile_state, idle_counter, idle_timeout,
    current_state, fault_latch, latched_error_code, irq_fault, pipeline_halt,
    fault_code, watchdog_counter, watchdog_limit, watchdog_enabled,
    watchdog_trip, raised,
    pins,           \* the undriven nets of this build
    disturbed       \* the cycle had a store, a CSR write or pipe activity

Power   == INSTANCE Orchestrator
Monitor == INSTANCE FaultMonitor

gated == <<current_tile_state, idle_counter, idle_timeout,
           current_state, fault_latch, latched_error_code, irq_fault,
           pipeline_halt, fault_code, raised, watchdog_counter,
           watchdog_limit, watchdog_enabled, watchdog_trip>>
vars  == <<gated, pins, disturbed>>

Init == Power!Init /\ Monitor!Init /\ pins \in PinValues /\ disturbed = FALSE

\* What the core may do in a cycle: nothing, a store, or one CSR write.
NoAccess == [store |-> FALSE, clear |-> FALSE,
             limit |-> CounterRange, timeout |-> CounterRange]
Accesses ==
    {NoAccess, [NoAccess EXCEPT !.store = TRUE], [NoAccess EXCEPT !.clear = TRUE]}
       \cup {[NoAccess EXCEPT !.limit = n] : n \in Limits}
       \cup {[NoAccess EXCEPT !.timeout = n] : n \in Timeouts}

PowerInputs(access) ==      \* wake_irq_trigger is three nets tied to 0
    [activity |-> pins.activity, wake |-> pins.wake, irq |-> FALSE,
     axi |-> access # NoAccess, timeout |-> access.timeout]

\* An ECC error hides the EML exception from soft_error[0].
MonitorInputs(access, errors, active) ==
    LET ecc == errors \cap {"single", "double"} # {} IN
    [soft |-> IF (ecc /\ "single" \in errors) \/ (~ecc /\ "exc" \in errors)
                THEN {0} ELSE {},
     hard |-> IF "double" \in errors THEN {1, 2} ELSE {},
     ecc |-> ecc, detected |-> pins.detected,
     csr |-> access # NoAccess /\ ~access.store,
     active |-> active, fault_clr |-> FALSE, irq_enable |-> TRUE,
     clear |-> access.clear, limit |-> access.limit]

CoreAwake == ~Power!Asleep(Core)

\* An edge of clk_core that passes the gate.
GatedTick(access, errors, active) ==
    /\ CoreAwake
    /\ Power!Clock(PowerInputs(access))
    /\ Monitor!Clock(MonitorInputs(access, errors, active))
    /\ disturbed' = (active \/ access # NoAccess)
    /\ UNCHANGED pins

\* Without clk_core_gated nothing here moves.
Stopped == ~CoreAwake /\ UNCHANGED vars

Tick == \E access \in Accesses, errors \in ErrorInputs, active \in BOOLEAN :
           GatedTick(access, errors, active)

Next == Tick \/ Stopped

Spec == Init /\ [][Next]_vars

\* The core's oscillator does not stop.
FairSpec == Spec /\ WF_vars(Tick)

----------------------------------------------------------------------------
(* Properties *)

TypeOK ==
    /\ Power!TypeOK /\ Monitor!TypeOK
    /\ pins \in PinValues /\ disturbed \in BOOLEAN

(***************************************************************************)
(* The handler of a fault interrupt reads 0x7CC: the code it finds is that *)
(* of a fault which came after the last clear, never a stale or empty one. *)
(***************************************************************************)
StatusNamesFault == irq_fault => fault_code \in raised

\* A latched fault raises the interrupt, or software clears it first, as long
\* as the core's clock runs.
FaultsAreReported ==
    [](fault_latch => <>(irq_fault \/ ~fault_latch \/ ~CoreAwake))

\* An armed watchdog over idle pipes ends in an interrupt that stays up.
WatchdogBites ==
    <>[](watchdog_enabled /\ ~disturbed /\ CoreAwake) => <>[]irq_fault

\* With fault_clr tied to 0, PIPELINE_HALT cannot be reached: no fault ever
\* halts the pipeline.
PipelineNeverHalts == ~pipeline_halt

\* A tile whose activity net reads 1 is never put to sleep.
ActiveTilesRun == \A t \in pins.activity : Power!Running(t)

\* The two together, and the types: neither a fault nor an idle counter stops
\* what is in use.
InUseGoesOn == TypeOK /\ PipelineNeverHalts /\ ActiveTilesRun

----------------------------------------------------------------------------
(* Deviations: what documents promise and the code does not do.            *)

\* README.md:305, "pipeline halt on trip".
TripHaltsPipeline == [](watchdog_trip => <>pipeline_halt)

\* README.md:297, a sleeping tile wakes on AXI activity.
AccessWakesTile ==
    \A t \in Tiles \ {Core} :
       []<>(disturbed /\ Power!Asleep(t)) => []<>Power!Running(t)

\* sby/security_fv.sv:9, a fault coincident with a clear sets the latch again.
\* fault_latch is then TRUE after the edge.
CoincidentFaultKept ==
    [][\A access \in Accesses, active \in BOOLEAN :
          GatedTick(access, {"single"}, active) => fault_latch']_vars

\* The core's tile sleeps only to wake again.
CoreWakes == [](~CoreAwake => <>CoreAwake)
=============================================================================
