------------------------------ MODULE XcewCsrs ------------------------------
(***************************************************************************)
(* The custom CSRs as the hardware keeps and reads them back, seen from    *)
(* libxcew: one access is one step, and a fault may be raised between any  *)
(* two.  The units behind the CSRs are the subject of other modules.       *)
(***************************************************************************)
EXTENDS BitFields, FiniteSets

CONSTANTS
    FaultCodes,     \* numbers of the codes the top level can raise: 2, 3 and 4
    MaxFaults       \* bound: faults in a run

ASSUME FaultsAssumption == FaultCodes \subseteq {2, 3, 4} /\ MaxFaults \in Nat

VARIABLES
    pwr_ctrl,       \* bits set in 0x7C8
    snn_ctrl,       \* bits set in 0x7C5
    pol_sec,        \* bits set in 0x7CB
    fault_code,     \* 0x7CC[3:0], the number of the last fault
    fault_latch,    \* keeps the interrupt raised
    pulse,          \* the policy unit's timeout interrupt
    mie, mie_global,    \* bits of mie, and mstatus.MIE
    active,         \* the undriven activity net, as this build has it
    awake,          \* the core clock runs
    faults          \* raised so far, for the bound

csrs == <<pwr_ctrl, snn_ctrl, pol_sec, fault_code, fault_latch, pulse, mie, mie_global,
          active, awake, faults>>

\* Startup code, which the repository does not have, may have set mie.MEIE.
CsrInit ==
    /\ pwr_ctrl = {} /\ snn_ctrl = {} /\ pol_sec = {}
    /\ fault_code = 0 /\ fault_latch = FALSE /\ pulse = FALSE
    /\ mie \in {{}, {11}} /\ mie_global = FALSE
    /\ active \in BOOLEAN /\ awake = TRUE
    /\ faults = 0

\* 0x7C8 is read in another layout than it is written in: bits 15 to 4 three lower,
\* bit 8 also as bit 0, the state of the core, RUN, as bit 13, and those of the three
\* other tiles above, where they are never read again (here all RUN).
PwrRead ==
    { b - 3 : b \in pwr_ctrl \intersect 4 .. 15 }
        \union (IF 8 \in pwr_ctrl THEN {0} ELSE {}) \union {13, 17, 21, 25}

IdleTimeout == FieldValue(4, 4, pwr_ctrl)

\* Without activity the tiles, the core's too, sleep once they have been idle for the
\* timeout; one of 0, the value after reset, has passed at the first clock edge.
Clocked == awake /\ (active \/ IdleTimeout # 0)

\* A write of v to 0x7CC: bit 31 drops the latch; the status is overwritten at once
\* with the code, which no write changes.
FaultStatusWrite(v) ==
    /\ fault_latch' = (fault_latch /\ 31 \notin v)
    /\ fault_code' = fault_code

\* An ECC error or an EML exception.
RaiseFault ==
    /\ Clocked /\ faults < MaxFaults
    /\ faults' = faults + 1
    /\ fault_code' \in FaultCodes
    /\ fault_latch' = TRUE
    /\ UNCHANGED <<pwr_ctrl, snn_ctrl, pol_sec, pulse, mie, mie_global, active, awake>>

\* With wake mask bit 8 clear and no clock there is no way back.
FallAsleep ==
    /\ awake /\ ~active
    /\ awake' = FALSE
    /\ UNCHANGED <<pwr_ctrl, snn_ctrl, pol_sec, fault_code, fault_latch, pulse, mie,
                   mie_global, active, faults>>

\* i_meip, and what the core asks of it before it traps.
ExternalInterrupt == (fault_latch \/ pulse) /\ mie_global /\ 11 \in mie
=============================================================================
