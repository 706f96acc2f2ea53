---------------------------- MODULE XcewPrograms ----------------------------
(***************************************************************************)
(* Programs on libxcew: the examples of sdk/examples as the sequences of   *)
(* calls they make, and one that makes any calls.  Faults come between any *)
(* two steps, and the handler of the two examples that have one runs when  *)
(* the core takes the interrupt.                                           *)
(***************************************************************************)
EXTENDS LibXcew, Sequences

CONSTANTS
    Iterations,     \* of the loop in irq_driven, 5 in the code
    Duty,           \* of the loop in power_mgmt, 3
    CountWord,      \* irq_count wraps here, 2^32
    MaxCalls        \* bound: how many of them it makes

\* A call, whether the program returns -1 if it fails, and whether it is made only
\* when the status was not 0.
C(f, a)       == [fn |-> f, arg |-> a, checked |-> FALSE, iffault |-> FALSE]
Checked(f, a) == [C(f, a) EXCEPT !.checked = TRUE]
IfFault(f, a) == [C(f, a) EXCEPT !.iffault = TRUE]

\* The calls of the program that makes any (a bound): each function, with arguments
\* on both sides of every test and of every field's width.
FreeCalls ==
    { C(c[1], c[2]) : c \in
        { <<"eml_init", 1>>, <<"eml_init", 2>>, <<"eml_compute", 0>>,
          <<"snn_init", 257>>, <<"snn_init", 128>>, <<"snn_init", 256>>,
          <<"snn_enable_stdp", 5>>, <<"snn_enable_stdp", 6>>, <<"snn_close", 0>>,
          <<"nvm_read", 0>>, <<"nvm_read", 1>>, <<"policy_set_deterministic", 1000>>,
          <<"policy_set_deterministic", 15>>, <<"policy_update", 0>>,
          <<"pwr_tile_sleep", 0>>, <<"pwr_tile_sleep", 3>>, <<"pwr_tile_sleep", 4>>,
          <<"pwr_tile_wake", 1>>, <<"fault_get_status", 0>>, <<"fault_clear", 0>> } }

Times(n, calls) ==
    [k \in 1 .. n * Len(calls) |-> calls[((k - 1) % Len(calls)) + 1]]

HelloEml ==
    << Checked("eml_init", 0), Checked("eml_compute", 0), C("fault_get_status", 0),
       IfFault("fault_clear", 0), C("eml_close", 0) >>

IrqDriven ==
    << C("enable", 0) >>
    \o Times(Iterations,
        << C("eml_init", 0), C("eml_compute", 0), C("eml_close", 0), C("test_count", 0),
           C("reset_count", 0), C("fault_get_status", 0), IfFault("fault_clear", 0) >>)
    \o << C("disable", 0) >>

FaultDemo ==
    << C("policy_set_deterministic", 1000), C("enable", 0), C("policy_update", 0),
       C("fault_get_status", 0), C("nvm_get_stats", 0) >>

MultiSubsystem ==
    << C("pwr_tile_wake", 0), C("pwr_tile_wake", 1), C("pwr_tile_wake", 2), C("eml_init", 0) >>
    \o Times(4, << C("eml_compute", 0) >>)
    \o << C("eml_close", 0), C("snn_init", 4), C("snn_load_weights", 4),
          C("snn_classify", 0), C("snn_close", 0), C("nvm_write", 1),
          C("pwr_tile_sleep", 0), C("pwr_tile_sleep", 2) >>

NvmPersist ==
    << C("nvm_read", 1), C("nvm_write", 1), C("nvm_write", 1), C("nvm_read", 1),
       C("nvm_get_stats", 0) >>

PowerMgmt ==
    << C("pwr_tile_sleep", 0), C("pwr_tile_sleep", 1), C("pwr_tile_sleep", 2),
       C("pwr_set_bias", -2) >>
    \o Times(Duty, << C("pwr_tile_wake", 0), C("eml_init", 0), C("eml_compute", 0),
                      C("eml_close", 0), C("pwr_tile_sleep", 0) >>)
    \o << C("pwr_set_bias", 0), C("pwr_tile_wake", 0), C("pwr_tile_wake", 1),
          C("pwr_tile_wake", 2) >>

SnnClassify ==
    << C("pwr_tile_wake", 2), Checked("snn_init", 4), Checked("snn_load_weights", 4),
       Checked("snn_classify", 0), C("snn_enable_stdp", 1), C("snn_close", 0),
       C("pwr_tile_sleep", 2) >>

Examples == { HelloEml, IrqDriven, FaultDemo, MultiSubsystem, NvmPersist, PowerMgmt,
              SnnClassify }

ASSUME ProgramsAssumption ==
    {Iterations, Duty, CountWord, MaxCalls} \subseteq Nat /\ CountWord > 1

VARIABLES
    program, pc,    \* the calls, and the next of them
    trap,           \* the handler's next step, "none" outside it
    trap_status,    \* what it read
    irq_count,      \* irq_count, or fault_seen
    tested,         \* history: irq_count as the last test saw it
    timeouts,       \* history: policy updates that raised the timeout interrupt
    late            \* history: a fault came after the last compute

control == <<program, pc, trap, trap_status, irq_count, tested, timeouts, late>>
programVars == <<csrs, library, control>>

ProgramInit ==
    /\ CsrInit /\ LibraryInit
    /\ program \in Examples \union {<< >>}      \* << >> makes any calls
    /\ pc = 1 /\ trap = "none" /\ trap_status = 0 /\ irq_count = 0 /\ tested = 0
    /\ timeouts = 0 /\ late = FALSE

Free == program = << >>
InMain == Clocked /\ trap = "none" /\ ~ExternalInterrupt
Ended == fn = "none" /\ pc > (IF Free THEN MaxCalls ELSE Len(program))

Controls == {"enable", "disable", "test_count", "reset_count"}

GivesUp == pc > 1 /\ program[pc - 1].checked /\ rc # OK

\* main makes its next call, passes one by, or returns -1.
Advance ==
    /\ InMain /\ fn = "none" /\ ~Free /\ ~Ended
    /\ IF GivesUp
       THEN pc' = Len(program) + 1 /\ UNCHANGED library
       ELSE IF program[pc].iffault /\ status = 0
       THEN pc' = pc + 1 /\ UNCHANGED library
       ELSE program[pc].fn \notin Controls /\ pc' = pc + 1
                /\ Call(program[pc].fn, program[pc].arg)
    /\ UNCHANGED <<csrs, program, trap, trap_status, irq_count, tested, timeouts, late>>

AdvanceFree ==
    /\ InMain /\ fn = "none" /\ Free /\ ~Ended
    /\ \E c \in FreeCalls : Call(c.fn, c.arg)
    /\ pc' = pc + 1
    /\ UNCHANGED <<csrs, program, trap, trap_status, irq_count, tested, timeouts, late>>

\* csrsi mie, 0x8
EnabledBit == 3

Control ==
    /\ InMain /\ fn = "none" /\ ~Free /\ ~Ended
    /\ pc' = pc + 1
    /\ \/ /\ program[pc].fn = "enable"
          /\ mie' = mie \union {EnabledBit} /\ mie_global' = TRUE
          /\ UNCHANGED <<irq_count, tested>>
       \/ /\ program[pc].fn = "disable"
          /\ mie_global' = FALSE
          /\ UNCHANGED <<mie, irq_count, tested>>
       \/ /\ program[pc].fn = "test_count"
          /\ tested' = irq_count
          /\ UNCHANGED <<mie, mie_global, irq_count>>
       \/ /\ program[pc].fn = "reset_count"
          /\ irq_count' = IF tested > 0 THEN 0 ELSE irq_count
          /\ UNCHANGED <<mie, mie_global, tested>>
    /\ UNCHANGED <<library, program, trap, trap_status, timeouts, late>>
    /\ UNCHANGED <<pwr_ctrl, snn_ctrl, pol_sec, fault_code, fault_latch, pulse, active,
                   awake, faults>>

InCall ==
    /\ InMain /\ LibraryStep
    /\ late' = (late /\ ~At("eml_compute", 2))
    /\ timeouts' = IF At("policy_update", 1) /\ pulse' THEN timeouts + 1 ELSE timeouts
    /\ UNCHANGED <<program, pc, trap, trap_status, irq_count, tested>>

\* irq_external_handler, between the trap and mret.
Trap ==
    /\ Clocked /\ trap = "none" /\ ExternalInterrupt
    /\ trap' = "read" /\ mie_global' = FALSE /\ pulse' = FALSE
    /\ UNCHANGED <<library, program, pc, trap_status, irq_count, tested, timeouts, late>>
    /\ UNCHANGED <<pwr_ctrl, snn_ctrl, pol_sec, fault_code, fault_latch, mie, active, awake,
                   faults>>

TrapRead ==
    /\ Clocked /\ trap = "read"
    /\ trap' = "clear" /\ trap_status' = fault_code /\ irq_count' = (irq_count + 1) % CountWord
    /\ UNCHANGED <<csrs, library, program, pc, tested, timeouts, late>>

TrapClear ==
    /\ Clocked /\ trap = "clear"
    /\ trap' = "none" /\ mie_global' = TRUE
    /\ FaultStatusWrite(ClearValue(trap_status))
    /\ UNCHANGED <<library, program, pc, trap_status, irq_count, tested, timeouts, late>>
    /\ UNCHANGED <<pwr_ctrl, snn_ctrl, pol_sec, pulse, mie, active, awake, faults>>

Software == Advance \/ AdvanceFree \/ Control \/ InCall \/ Trap \/ TrapRead \/ TrapClear

Sleep == FallAsleep /\ UNCHANGED <<library, control>>

Hardware ==
    \/ RaiseFault /\ late' = TRUE
          /\ UNCHANGED <<library, program, pc, trap, trap_status, irq_count, tested, timeouts>>
    \/ Sleep

ProgramNext == Software \/ Hardware

\* The core goes on with its program as long as its clock runs, and an idle counter
\* that counts comes to its timeout.
ProgramSpec ==
    /\ ProgramInit /\ [][ProgramNext]_programVars
    /\ WF_programVars(Software) /\ WF_programVars(Sleep)
-----------------------------------------------------------------------------
(* Properties.                                                             *)

\* The variables have their types.
ProgramTypeOK ==
    /\ pwr_ctrl \subseteq 0 .. 31 /\ snn_ctrl \subseteq 0 .. 31 /\ pol_sec \subseteq 0 .. 31
    /\ fault_code \in FaultCodes \union {0} /\ status \in FaultCodes \union {0}
    /\ mie \subseteq {3, 11}
    /\ {fault_latch, pulse, mie_global, active, awake, late} \subseteq BOOLEAN
    /\ faults \in 0 .. MaxFaults
    /\ rc \in {OK, INVALID, ECC, FAULT}
    /\ snn \in [neuron_count : 0 .. 256, ttfs_enabled : {0, 1}]
    /\ trap \in {"none", "read", "clear"}
    /\ {irq_count, tested, timeouts} \subseteq Nat

\* The external interrupt is a level that the handler has to drop before mret sets
\* mstatus.MIE again: no fault and no timeout has it run twice, whichever accesses of
\* main, the handler and the hardware come between.
InterruptsHaveCauses == irq_count <= faults + timeouts

\* hello_eml clears only faults that came after its compute had read the status: for
\* an earlier one it has left.
HelloClearsLateOnly ==
    program = HelloEml /\ fn = "fault_clear" => late

\* What the programs make of faults that come at any moment.
FaultsHandledOnce == ProgramTypeOK /\ InterruptsHaveCauses /\ HelloClearsLateOnly

\* No failure is missed or made up: a compute that reads the status before the fault of
\* this or of an earlier call was cleared reports it, whoever reads or clears besides,
\* and a call that reports a failure has had a fault before it.
FailuresReported ==
    [][/\ At("eml_compute", 2) /\ fn' = "none" /\ fault_latch => rc' = FAULT
       /\ fn # "none" /\ fn' = "none" /\ rc' \in {FAULT, ECC} => faults > 0]_programVars

\* Every program comes to its end or to the classify instruction, however many power
\* calls it makes and whatever faults interrupt it; but in a build whose activity net
\* is 0 the core is asleep before the first instruction.
ComesToAnEnd == <>(Ended \/ Stuck \/ (~awake /\ ~active /\ pc = 1))
-----------------------------------------------------------------------------
(* Deviations: what the comments say and the code does not do.             *)

\* Violated: "Clear fault status bits": a status read after a clear, without a new
\* fault in between, is 0.
ClearClears == [][At("fault_clear", 1) /\ fn' = "none" => fault_code' = 0]_programVars

\* Violated: "XCEW_ERR_ECC on uncorrectable error": the code of that error is 3, and
\* xcew_nvm_read tests bit 2.
EccReported ==
    [][At("nvm_read", 2) /\ fn' = "none" => (rc' = ECC <=> fault_code = 3)]_programVars

\* Violated: a fault is not cleared before it was read.
ClearsWhatWasRead ==
    [][fault_latch /\ ~fault_latch' =>
          fault_code = IF trap = "clear" THEN trap_status ELSE status]_programVars

\* Violated: "IRQ occurred during iteration": a count is not reset before it was seen.
NoCountLost == [][irq_count' = 0 /\ irq_count > 0 => irq_count = tested]_programVars

\* Violated: "MEIE = 1": the bit that the examples set in mie is the one the core asks
\* of an external interrupt.
HandlerEnabled == mie_global => 11 \in mie

\* Violated: "[31:16] MAX_CYCLES": the limit of a policy update is the one asked for.
LimitKept ==
    [][At("policy_set_deterministic", 1) /\ fn' = "none" => LimitRead' = arg]_programVars

\* Violated: "TTFS on by default" and "Enable STDP learning": TTFS, bit 7 of 0x7C5, is
\* on in a tile that was set up, and STDP, bit 20, in one where it was enabled.
TtfsOnByDefault ==
    [][At("snn_init", 1) /\ fn' = "none" /\ rc' = OK => 7 \in snn_ctrl']_programVars
StdpEnabled ==
    [][At("snn_enable_stdp", 1) /\ fn' = "none" /\ rc' = OK => 20 \in snn_ctrl']_programVars

\* Violated: "Set sleep request for tile": a power call leaves the idle timeout alone.
TimeoutUntouched == IdleTimeout = 0

\* Violated: "Put a tile to sleep": the core sleeps only when it was asked to.
SleepsOnlyWhenAsked == ~awake => 0 \in pwr_ctrl
=============================================================================
