--------------------------- MODULE PowerFaultProofs ---------------------------
(***************************************************************************)
(* Proofs about PowerFault for every set of tiles, timeouts, limits,       *)
(* error inputs and undriven nets.                                         *)
(***************************************************************************)
EXTENDS PowerFault, TLAPS

(***************************************************************************)
(* The interrupt rises two edges after the latch, and the code reaches     *)
(* fault_code one edge after it.  So the invariant follows the code down:  *)
(* it is in latched_error_code while the latch is set, and in fault_code   *)
(* from the moment the machine leaves IDLE.  PIPELINE_HALT is left out of  *)
(* the states because it needs either fault_clr or pipeline_halt itself.   *)
(***************************************************************************)
MachineInvariant ==
    /\ fault_latch => latched_error_code \in raised
    /\ current_state \in {"IDLE", "IRQ_ASSERT"}
    /\ current_state = "IRQ_ASSERT" => fault_latch /\ fault_code \in raised
    /\ irq_fault => current_state = "IRQ_ASSERT"
    /\ ~pipeline_halt

\* A clear leaves nothing behind; otherwise a fault's code joins raised.
LEMMA LatchKeepsCode ==
    ASSUME NEW in, MachineInvariant, Monitor!Latch(in), ~in.fault_clr
    PROVE  /\ Monitor!Clears(in) => ~fault_latch'
           /\ ~Monitor!Clears(in) => raised \subseteq raised'
           /\ ~Monitor!Clears(in) /\ fault_latch => fault_latch'
           /\ fault_latch' => latched_error_code' \in raised'
<1>1. CASE Monitor!Clears(in)
  BY <1>1 DEF Monitor!Latch
<1>2. CASE ~Monitor!Clears(in) /\ Monitor!AnyFault(in)
  BY <1>2 DEF Monitor!Latch, MachineInvariant
<1>3. CASE ~Monitor!Clears(in) /\ ~Monitor!AnyFault(in)
  BY <1>3 DEF Monitor!Latch, MachineInvariant
<1> QED BY <1>1, <1>2, <1>3

LEMMA ClockKeepsInvariant ==
    ASSUME NEW in, MachineInvariant, Monitor!Clock(in),
           ~in.fault_clr, in.irq_enable
    PROVE  MachineInvariant'
<1> USE DEF Monitor!Clock
<1>1. /\ Monitor!Clears(in) => ~fault_latch'
      /\ ~Monitor!Clears(in) => raised \subseteq raised'
      /\ ~Monitor!Clears(in) /\ fault_latch => fault_latch'
      /\ fault_latch' => latched_error_code' \in raised'
  BY LatchKeepsCode
<1>2. CASE Monitor!Clears(in)
  BY <1>1, <1>2 DEF Monitor!Machine, MachineInvariant
<1>3. CASE ~Monitor!Clears(in) /\ current_state = "IDLE"
  <2>1. current_state' = IF fault_latch THEN "IRQ_ASSERT" ELSE "IDLE"
    BY <1>3 DEF Monitor!Machine, Monitor!NextState
  <2>2. ~irq_fault' /\ ~pipeline_halt'
    BY <1>3 DEF Monitor!Machine, MachineInvariant
  <2> QED BY <1>1, <1>3, <2>1, <2>2 DEF MachineInvariant
<1>4. CASE ~Monitor!Clears(in) /\ current_state = "IRQ_ASSERT"
  <2>1. current_state' = "IRQ_ASSERT"
    BY <1>4 DEF Monitor!Machine, Monitor!NextState, MachineInvariant
  <2>2. ~pipeline_halt'
    BY <1>4 DEF Monitor!Machine, MachineInvariant
  <2> QED BY <1>1, <1>4, <2>1, <2>2 DEF MachineInvariant
<1> QED BY <1>2, <1>3, <1>4 DEF MachineInvariant

(***************************************************************************)
(* In every build and for every behaviour of the core, an interrupt comes  *)
(* with the code of a fault since the last clear, and the pipeline never   *)
(* halts: the tie-offs of xcew_top_v1_1.v in PowerInputs are all it takes. *)
(***************************************************************************)
THEOREM MachineCorrect == Spec => []MachineInvariant
<1>1. Init => MachineInvariant
  BY DEF Init, Monitor!Init, MachineInvariant
<1>2. MachineInvariant /\ [Next]_vars => MachineInvariant'
  <2> SUFFICES ASSUME MachineInvariant, [Next]_vars PROVE MachineInvariant'
    OBVIOUS
  <2>1. ASSUME NEW access \in Accesses, NEW errors \in ErrorInputs,
               NEW active \in BOOLEAN, GatedTick(access, errors, active)
        PROVE  MachineInvariant'
    <3> DEFINE in == MonitorInputs(access, errors, active)
    <3>1. Monitor!Clock(in) BY <2>1 DEF GatedTick
    <3>2. ~in.fault_clr /\ in.irq_enable BY DEF MonitorInputs
    <3> HIDE DEF in
    <3> QED BY <3>1, <3>2, ClockKeepsInvariant
  <2>2. CASE UNCHANGED vars
    BY <2>2 DEF vars, gated, MachineInvariant
  <2> QED BY <2>1, <2>2 DEF Next, Tick, Stopped
<1> QED BY <1>1, <1>2, PTL DEF Spec

\* What the handler of a fault interrupt reads names a fault it has not seen.
THEOREM StatusCorrect == Spec => []StatusNamesFault
<1>1. MachineInvariant => StatusNamesFault
  BY DEF MachineInvariant, StatusNamesFault
<1> QED BY <1>1, MachineCorrect, PTL

\* As wired, no fault halts the pipeline.
THEOREM HaltUnreachable == Spec => []PipelineNeverHalts
<1>1. MachineInvariant => PipelineNeverHalts
  BY DEF MachineInvariant, PipelineNeverHalts
<1> QED BY <1>1, MachineCorrect, PTL

\* A tile whose activity net reads 1 runs for ever, the core's included.
THEOREM ActiveTilesCorrect == Spec => []ActiveTilesRun
<1> DEFINE Inv == ActiveTilesRun /\ pins.activity \subseteq Tiles
<1>1. Init => Inv
  BY InputAssumption DEF Init, Power!Init, Power!Running, ActiveTilesRun
<1>2. Inv /\ [Next]_vars => Inv'
  <2> SUFFICES ASSUME Inv, [Next]_vars PROVE Inv'
    OBVIOUS
  <2>1. ASSUME NEW access \in Accesses, NEW errors \in ErrorInputs,
               NEW active \in BOOLEAN, GatedTick(access, errors, active)
        PROVE  Inv'
    <3> DEFINE in == PowerInputs(access)
    <3>1. Power!Clock(in) /\ pins' = pins BY <2>1 DEF GatedTick
    <3>2. in.activity = pins.activity BY DEF PowerInputs
    <3> HIDE DEF in
    <3>3. ASSUME NEW t \in pins.activity PROVE current_tile_state'[t] = "RUN"
      <4>1. current_tile_state[t] = "RUN" /\ t \in Tiles
        BY DEF ActiveTilesRun, Power!Running
      <4>2. ~Power!FallsAsleep(t, in)
        BY <3>2 DEF Power!FallsAsleep
      <4> QED BY <3>1, <4>1, <4>2 DEF Power!Clock
    <3> QED BY <3>1, <3>3 DEF ActiveTilesRun, Power!Running
  <2>2. CASE UNCHANGED vars
    BY <2>2 DEF vars, gated, ActiveTilesRun, Power!Running
  <2> QED BY <2>1, <2>2 DEF Next, Tick, Stopped
<1> QED BY <1>1, <1>2, PTL DEF Spec

----------------------------------------------------------------------------
(* The types, and with them InUseGoesOn.                                   *)

\* A counter that wraps stays within its range.
LEMMA WrapsInRange ==
    ASSUME NEW n \in 0 .. CounterRange - 1
    PROVE  (n + 1) % CounterRange \in 0 .. CounterRange - 1
BY CounterAssumption

\* One edge keeps the types of the orchestrator, whatever its inputs.
LEMMA PowerTypes ==
    ASSUME NEW in, Power!TypeOK, Power!Clock(in)
    PROVE  Power!TypeOK'
<1> USE DEF Power!TypeOK, Power!Clock
<1>1. current_tile_state' \in [Tiles -> {"RUN", "SLEEP"}]
  OBVIOUS
<1>2. idle_counter' \in [Tiles -> 0 .. CounterRange - 1]
  <2>1. 0 \in 0 .. CounterRange - 1
    BY CounterAssumption
  <2>2. \A t \in Tiles : (idle_counter[t] + 1) % CounterRange \in 0 .. CounterRange - 1
    BY WrapsInRange
  <2> QED BY <2>1, <2>2
<1>3. idle_timeout' \in Timeouts
  OBVIOUS
<1> QED BY <1>1, <1>2, <1>3

\* Of the monitor likewise.  The code of a fault is one of the nine, whichever
\* branch of the chain of priorities gives it.
LEMMA MonitorTypes ==
    ASSUME NEW in, Monitor!TypeOK, Monitor!Clock(in)
    PROVE  Monitor!TypeOK'
<1> USE DEF Monitor!TypeOK, Monitor!Clock
<1>1. Monitor!ErrorCode(in) \in Monitor!Codes
  BY DEF Monitor!ErrorCode, Monitor!Codes
<1>2. /\ latched_error_code' \in Monitor!Codes /\ raised' \subseteq Monitor!Codes
      /\ fault_latch' \in BOOLEAN /\ fault_code' \in Monitor!Codes
  BY <1>1 DEF Monitor!Latch
<1>3. /\ current_state' \in {"IDLE", "IRQ_ASSERT", "PIPELINE_HALT"}
      /\ irq_fault' \in BOOLEAN
  BY DEF Monitor!Machine, Monitor!NextState
<1>4. pipeline_halt' \in BOOLEAN
  BY DEF Monitor!Machine
<1>5. watchdog_trip' \in BOOLEAN /\ watchdog_enabled' \in BOOLEAN
  BY DEF Monitor!Watchdog
<1>6. watchdog_counter' \in 0 .. CounterRange - 1
  <2>1. 0 \in 0 .. CounterRange - 1
    BY CounterAssumption
  <2> QED BY <2>1, WrapsInRange DEF Monitor!Watchdog
<1>7. watchdog_limit' \in 0 .. CounterRange - 1
  <2>1. \A n \in Limits : n \in 0 .. CounterRange - 1
    BY CounterAssumption
  <2> QED BY <2>1 DEF Monitor!Watchdog, Monitor!Arms
<1> QED BY <1>2, <1>3, <1>4, <1>5, <1>6, <1>7

\* Types in every build and for every sequence of inputs.
THEOREM TypeCorrect == Spec => []TypeOK
<1>1. Init => TypeOK
  <2> SUFFICES ASSUME Init PROVE TypeOK
    OBVIOUS
  <2>1. 0 \in 0 .. CounterRange - 1 /\ CounterRange - 1 \in 0 .. CounterRange - 1
    BY CounterAssumption
  <2>2. Power!TypeOK
    BY <2>1, CounterAssumption DEF Init, Power!Init, Power!TypeOK
  <2>3. Monitor!TypeOK
    BY <2>1 DEF Init, Monitor!Init, Monitor!TypeOK, Monitor!Codes
  <2> QED BY <2>2, <2>3 DEF Init, TypeOK
<1>2. TypeOK /\ [Next]_vars => TypeOK'
  <2> SUFFICES ASSUME TypeOK, [Next]_vars PROVE TypeOK'
    OBVIOUS
  <2>1. ASSUME NEW access \in Accesses, NEW errors \in ErrorInputs,
               NEW active \in BOOLEAN, GatedTick(access, errors, active)
        PROVE  TypeOK'
    <3>1. Power!TypeOK'
      BY <2>1, PowerTypes DEF TypeOK, GatedTick
    <3>2. Monitor!TypeOK'
      BY <2>1, MonitorTypes DEF TypeOK, GatedTick
    <3> QED BY <2>1, <3>1, <3>2 DEF TypeOK, GatedTick
  <2>2. CASE UNCHANGED vars
    BY <2>2 DEF vars, gated, TypeOK, Power!TypeOK, Monitor!TypeOK
  <2> QED BY <2>1, <2>2 DEF Next, Tick, Stopped
<1> QED BY <1>1, <1>2, PTL DEF Spec

\* Neither a fault nor an idle counter stops what is in use.
THEOREM InUseCorrect == Spec => []InUseGoesOn
<1>1. TypeOK /\ PipelineNeverHalts /\ ActiveTilesRun => InUseGoesOn
  BY DEF InUseGoesOn
<1> QED BY <1>1, TypeCorrect, HaltUnreachable, ActiveTilesCorrect, PTL
=============================================================================
