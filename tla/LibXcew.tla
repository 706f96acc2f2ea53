------------------------------ MODULE LibXcew ------------------------------
(***************************************************************************)
(* libxcew: sdk/src/xcew_eml.c, xcew_snn.c and xcew_sys.c.  A call is in   *)
(* progress while fn names it; each of its CSR accesses is a step.  Loads  *)
(* and stores of the SNN and NVM windows reach no CSR and leave no trace   *)
(* here.                                                                   *)
(***************************************************************************)
EXTENDS XcewCsrs, Integers

VARIABLES
    fn, arg, step,  \* the call in progress ("none" for none), and its next step
    tmp,            \* bits of 0x7C8 between the two accesses of a power call
    rc,             \* what the last call returned
    snn,            \* [neuron_count, ttfs_enabled] of the SNN context
    written,        \* [dag, bias] in 0x7C6 and 0x7C9
    status          \* what xcew_fault_get_status gave last

library == <<fn, arg, step, tmp, rc, snn, written, status>>

OK == 0
INVALID == -1
ECC == -4
FAULT == -5

LibraryInit ==
    /\ fn = "none" /\ arg = 0 /\ step = 1 /\ tmp = {} /\ rc = OK
    /\ snn = [neuron_count |-> 0, ttfs_enabled |-> 0]
    /\ written = [dag |-> 0, bias |-> 0]
    /\ status = 0

Call(f, a) ==
    /\ fn = "none" /\ fn' = f /\ arg' = a /\ step' = 1
    /\ UNCHANGED <<tmp, rc, snn, written, status>>

At(f, s) == fn = f /\ step = s
Return(code) == fn' = "none" /\ rc' = code /\ tmp' = {} /\ UNCHANGED <<arg, step>>
Continue == step' = step + 1 /\ UNCHANGED <<fn, arg, rc>>

CountRefused(n) == n = 0 \/ n > 256

\* Arguments that a function refuses; for the NVM window arg 0 is a bad range.
Invalid ==
    \/ fn = "eml_init" /\ arg > 1
    \/ fn = "snn_init" /\ CountRefused(arg)
    \/ fn = "snn_load_weights" /\ arg > snn.neuron_count
    \/ fn = "snn_enable_stdp" /\ arg > 5
    \/ fn \in {"nvm_read", "nvm_write"} /\ arg = 0
    \/ fn \in {"pwr_tile_sleep", "pwr_tile_wake"} /\ arg > 3

Refuse ==
    /\ step = 1 /\ Invalid /\ Return(INVALID)
    /\ UNCHANGED <<snn, written, status, csrs>>

\* A call whose accesses nothing here can tell apart from none.
LeavesNoTrace(f) ==
    /\ fn = f /\ ~Invalid /\ Return(OK)
    /\ UNCHANGED <<snn, written, status, csrs>>

EmlClose    == LeavesNoTrace("eml_close")
LoadWeights == LeavesNoTrace("snn_load_weights")
NvmWrite    == LeavesNoTrace("nvm_write")
NvmGetStats == LeavesNoTrace("nvm_get_stats")

EmlInit ==      \* 0x7C0 gets the same value each time
    /\ At("eml_init", 1) /\ ~Invalid /\ Return(OK)
    /\ written' = [written EXCEPT !.dag = arg]
    /\ UNCHANGED <<snn, status, csrs>>

\* The instruction or the loads come first, then the status is read.
Before7CC ==
    /\ At("eml_compute", 1) \/ (At("nvm_read", 1) /\ ~Invalid)
    /\ Continue /\ UNCHANGED tmp
    /\ UNCHANGED <<snn, written, status, csrs>>

\* Mutant: the test of xcew_nvm_read.
FaultyBit2 == 2 \in Field(0, 4, fault_code)
Faulty == fault_code # 0

EmlCompute ==
    /\ At("eml_compute", 2)
    /\ Return(IF Faulty THEN FAULT ELSE OK)
    /\ UNCHANGED <<snn, written, status, csrs>>

\* xcew_nvm_read tests bit 2 of the code.
DoubleError == 2 \in Field(0, 4, fault_code)

NvmRead ==
    /\ At("nvm_read", 2)
    /\ Return(IF DoubleError THEN ECC ELSE OK)
    /\ UNCHANGED <<snn, written, status, csrs>>

SnnControl(policy) ==
    Field(0, 8, snn'.neuron_count % 256) \union Field(8, 1, snn'.ttfs_enabled)
        \union Field(12, 3, policy)

\* A call on the SNN context that makes its count and TTFS flag what c says.
SnnCall(f, c) ==
    /\ fn = f /\ ~Invalid /\ Return(OK) /\ snn' = c
    /\ UNCHANGED <<written, status>>
    /\ UNCHANGED <<pwr_ctrl, pol_sec, fault_code, fault_latch, pulse, mie, mie_global,
                   active, awake, faults>>

SnnInit ==
    /\ SnnCall("snn_init", [neuron_count |-> arg, ttfs_enabled |-> 1])
    /\ snn_ctrl' = SnnControl(0)

EnableStdp ==
    /\ SnnCall("snn_enable_stdp", snn)
    /\ snn_ctrl' = SnnControl(arg)

SnnClose ==
    /\ SnnCall("snn_close", [snn EXCEPT !.neuron_count = 0])
    /\ UNCHANGED snn_ctrl

\* The classify instruction never ends (SnnPath), so snn_classify has no step.
Stuck == fn = "snn_classify"

LimitWritten(n) == {0} \union Field(16, 16, n % 2^16)
LimitRead == FieldValue(1, 4, pol_sec)

SetDeterministic ==
    /\ At("policy_set_deterministic", 1) /\ Return(OK)
    /\ pol_sec' = LimitWritten(arg)
    /\ UNCHANGED <<snn, written, status>>
    /\ UNCHANGED <<pwr_ctrl, snn_ctrl, fault_code, fault_latch, pulse, mie, mie_global,
                   active, awake, faults>>

\* A limit of 0 times the update out in its first cycle (PolicyDeterminism); the
\* interrupt lasts three cycles, and the core may see it.
PolicyUpdate ==
    /\ At("policy_update", 1) /\ Return(OK)
    /\ pulse' \in IF 0 \in pol_sec /\ LimitRead = 0 THEN BOOLEAN ELSE {FALSE}
    /\ UNCHANGED <<snn, written, status>>
    /\ UNCHANGED <<pwr_ctrl, snn_ctrl, pol_sec, fault_code, fault_latch, mie, mie_global,
                   active, awake, faults>>

PwrReads ==
    /\ At("pwr_tile_sleep", 1) \/ At("pwr_tile_wake", 1)
    /\ ~Invalid /\ tmp' = PwrRead /\ Continue
    /\ UNCHANGED <<snn, written, status, csrs>>

PwrWrites ==
    /\ At("pwr_tile_sleep", 2) \/ At("pwr_tile_wake", 2)
    /\ pwr_ctrl' = IF fn = "pwr_tile_sleep" THEN tmp \union {arg} ELSE tmp \ {arg}
    /\ Return(OK)
    /\ UNCHANGED <<snn, written, status>>
    /\ UNCHANGED <<snn_ctrl, pol_sec, fault_code, fault_latch, pulse, mie, mie_global,
                   active, awake, faults>>

SetBias ==
    /\ At("pwr_set_bias", 1) /\ Return(OK)
    /\ written' = [written EXCEPT !.bias = arg]
    /\ UNCHANGED <<snn, status, csrs>>

GetStatus ==
    /\ At("fault_get_status", 1) /\ Return(OK)
    /\ status' = fault_code
    /\ UNCHANGED <<snn, written, csrs>>

\* Mutant: the master clear bit is left out.
ClearValueMaskOnly(mask) == Field(0, 8, mask)
ClearValue(mask) == Field(0, 8, mask) \union {31}

FaultClear ==
    /\ At("fault_clear", 1) /\ Return(OK)
    /\ FaultStatusWrite(ClearValue(status))
    /\ UNCHANGED <<snn, written, status>>
    /\ UNCHANGED <<pwr_ctrl, snn_ctrl, pol_sec, pulse, mie, mie_global, active, awake, faults>>

LibraryStep ==
    \/ Refuse
    \/ EmlInit \/ Before7CC \/ EmlCompute \/ EmlClose
    \/ SnnInit \/ LoadWeights \/ EnableStdp \/ SnnClose
    \/ NvmRead \/ NvmWrite \/ NvmGetStats
    \/ SetDeterministic \/ PolicyUpdate
    \/ PwrReads \/ PwrWrites \/ SetBias
    \/ GetStatus \/ FaultClear
=============================================================================
