----------------------------- MODULE RiscvCore -----------------------------
(***************************************************************************)
(* The pipeline of rtl/core/riscv_core.v (built without SUPPORT_C): fetch, *)
(* ID/EX, the stall on the Xcew accelerator, M-mode traps, and debug mode. *)
(* One step is one rising clock edge: every register is computed from the  *)
(* values before the edge and the inputs of that cycle.  debug_halted is   *)
(* always equal to debug_mode in the code and is not kept apart.           *)
(***************************************************************************)
EXTENDS RvIsa

CONSTANTS
    Irqs,           \* {0, 1} where i_meip may be raised, else {0}
    DmWrites,       \* what the debugger may write to dcsr while halted
    MaxHalts,       \* bound: cycles in which the debugger asks for a halt
    MaxResets       \* bound: cycles in which it asks for a hart reset

ASSUME CoreAssumption ==
    /\ Irqs \subseteq {0, 1} /\ Irqs # {}
    /\ DmWrites \subseteq {"plain", "step", "ebreakm"}
    /\ MaxHalts \in Nat /\ MaxResets \in Nat

VARIABLES
    pc_reg, if_instr, if_pc,                    \* fetch
    id_ex_instr, id_ex_pc, id_ex_valid, redirect_r,
    regs, rf_we, mem,                           \* register file, data memory
    xcew_pending, xcew_valid, o_xcew_req, xcew_result,
    operand,                                    \* what the accelerator latched
    csr,                                        \* the M-mode CSRs
    debug_mode, debug_single_step, step_armed, dcsr, dpc,
    ran,            \* history: instructions completed since a resume to step
    rom_left,       \* history: cycles in which a halted hart still runs debug-ROM words
    asked           \* bounds: halts and resets asked for

pipe  == <<pc_reg, if_instr, if_pc, id_ex_instr, id_ex_pc, id_ex_valid, redirect_r>>
xcew  == <<xcew_pending, xcew_valid, o_xcew_req, xcew_result, operand>>
debug == <<debug_mode, debug_single_step, step_armed, dcsr, dpc, ran, rom_left,
           asked>>
arch  == <<regs, mem, csr>>
vars  == <<pipe, rf_we, arch, xcew, debug>>

None      == "none"        \* the debugger writes nothing
NoOperand == Width         \* no word

Init ==
    /\ pc_reg = 0 /\ if_instr = Zero /\ if_pc = 0
    /\ id_ex_instr = Zero /\ id_ex_pc = 0 /\ id_ex_valid = FALSE
    /\ redirect_r = FALSE
    /\ regs = [r \in Regs |-> 0] /\ rf_we = FALSE /\ mem = 0
    /\ xcew_pending = FALSE /\ xcew_valid = FALSE /\ o_xcew_req = Zero
    /\ xcew_result = 0 /\ operand = NoOperand
    /\ csr = CsrReset
    /\ debug_mode = FALSE /\ debug_single_step = FALSE /\ step_armed = FALSE
    /\ dcsr = "plain" /\ dpc = 0 /\ ran = 0 /\ rom_left = 0
    /\ asked = [halts |-> 0, resets |-> 0]

----------------------------------------------------------------------------
(* The inputs of a cycle, and the nets derived from them.                  *)

Inputs == [irq : Irqs, done : BOOLEAN, halt : BOOLEAN, resume : BOOLEAN,
           reset : BOOLEAN, dcsr : DmWrites \cup {None}]

Allowed(in) ==
    /\ in.done => xcew_pending
    /\ in.halt => asked.halts < MaxHalts
    /\ in.reset => asked.resets < MaxResets
    /\ in.resume => debug_mode
    /\ in.dcsr # None => debug_mode

IsXcew == id_ex_instr.op = "xcew"

stall(in) == xcew_pending /\ ~in.done

trap_taken(in) ==
    /\ id_ex_valid /\ csr.mtvec # 0 /\ ~xcew_pending
    /\ Exception(id_ex_instr) \/ (in.irq = 1 /\ IrqEnabled(csr))

trap_cause == Cause(id_ex_instr)
mret_taken(in) == id_ex_valid /\ id_ex_instr.op = "mret" /\ ~trap_taken(in)
pc_sel_jump == id_ex_valid /\ Jumps(id_ex_instr, regs)

debug_step_reenter(in) ==
    debug_single_step /\ ~debug_mode /\ step_armed /\ id_ex_valid /\ ~stall(in)
debug_enter(in) ==
    \/ in.halt /\ ~debug_mode
    \/ id_ex_valid /\ id_ex_instr.op = "ebreak" /\ ~debug_mode /\ dcsr = "ebreakm"
    \/ debug_step_reenter(in)
debug_exit(in) == in.resume /\ debug_mode

redirect(in) == pc_sel_jump \/ trap_taken(in) \/ mret_taken(in)

\* Mutant: what ID/EX captures when debug mode is entered is not squashed.
FlushNotOnEnter(in) == redirect(in) \/ redirect_r \/ debug_exit(in)

\* Mutant: what ID/EX captures when debug mode is left is not squashed.
FlushNotOnExit(in) == redirect(in) \/ redirect_r \/ debug_enter(in)

\* Mutant: only the instruction right behind a taken jump is squashed.
FlushOnce(in) == redirect(in) \/ debug_exit(in) \/ debug_enter(in)

flush(in) == redirect(in) \/ redirect_r \/ debug_exit(in) \/ debug_enter(in)

next_pc(in) ==      \* a chain of priorities, as in the code
    IF debug_enter(in) THEN Rom
    ELSE IF debug_exit(in) THEN dpc
    ELSE IF trap_taken(in) THEN csr.mtvec
    ELSE IF mret_taken(in) THEN csr.mepc
    ELSE IF pc_sel_jump THEN id_ex_instr.k
    ELSE (pc_reg + 1) % Width

----------------------------------------------------------------------------
(* One clock edge, register by register.                                   *)

\* Mutant: a stall holds the fetch back from a debug redirect too.
StallHoldsFetch(in) ==
    IF stall(in) THEN UNCHANGED <<pc_reg, if_instr, if_pc>>
    ELSE IF debug_enter(in) \/ debug_exit(in) \/ trap_taken(in) \/ mret_taken(in)
      THEN /\ pc_reg' = next_pc(in)
           /\ if_instr' = Nop
           /\ if_pc' = next_pc(in)
      ELSE /\ pc_reg' = next_pc(in)
           /\ if_instr' = Fetch(pc_reg)
           /\ if_pc' = pc_reg

\* IF: a trap or a debug event redirects even a stalled fetch; a plain jump
\* does so only when the fetch is not stalled.
FetchStage(in) ==
    IF debug_enter(in) \/ debug_exit(in) \/ trap_taken(in) \/ mret_taken(in)
      THEN /\ pc_reg' = next_pc(in)
           /\ if_instr' = Nop
           /\ if_pc' = next_pc(in)
      ELSE IF ~stall(in)
      THEN /\ pc_reg' = next_pc(in)
           /\ if_instr' = Fetch(pc_reg)
           /\ if_pc' = pc_reg
      ELSE UNCHANGED <<pc_reg, if_instr, if_pc>>

\* Mutant: ID/EX keeps its instruction while the pipeline is stalled.
StallKeepsValid(in) ==
    IF stall(in)
      THEN UNCHANGED <<id_ex_instr, id_ex_pc, id_ex_valid, redirect_r>>
      ELSE /\ id_ex_instr' = if_instr
           /\ id_ex_pc' = if_pc
           /\ id_ex_valid' = ~flush(in)
           /\ redirect_r' = redirect(in)

DecodeStage(in) ==
    IF stall(in)
      THEN /\ id_ex_valid' = FALSE
           /\ UNCHANGED <<id_ex_instr, id_ex_pc, redirect_r>>
      ELSE /\ id_ex_instr' = if_instr
           /\ id_ex_pc' = if_pc
           /\ id_ex_valid' = ~flush(in)
           /\ redirect_r' = redirect(in)

\* The accelerator sees o_rs1_data: the rs1 of whatever is in ID/EX.
Operand == IF operand = NoOperand THEN Read(regs, id_ex_instr.rs) ELSE operand

Completes(in) == xcew_pending /\ in.done

\* Mutant: a completed operation stays pending.
XcewNotCleared(in) ==
    LET accepts == id_ex_valid /\ IsXcew /\ ~xcew_pending IN
    /\ xcew_pending' = (accepts \/ xcew_pending)
    /\ o_xcew_req' = IF accepts THEN id_ex_instr ELSE o_xcew_req
    /\ xcew_result' = IF Completes(in) THEN XcewResult[Operand] ELSE xcew_result
    /\ xcew_valid' = (Completes(in) \/ (xcew_valid /\ ~rf_we))
    /\ operand' = IF xcew_pending /\ ~in.done THEN Operand ELSE NoOperand

XcewRegisters(in) ==
    LET accepts == id_ex_valid /\ IsXcew /\ ~xcew_pending IN
    /\ xcew_pending' = (accepts \/ (xcew_pending /\ ~Completes(in)))
    /\ o_xcew_req' = IF accepts THEN id_ex_instr ELSE o_xcew_req
    /\ xcew_result' = IF Completes(in) THEN XcewResult[Operand] ELSE xcew_result
    /\ xcew_valid' = (Completes(in) \/ (xcew_valid /\ ~rf_we))
    /\ operand' = IF xcew_pending /\ ~in.done THEN Operand ELSE NoOperand

wb_data == IF xcew_valid THEN xcew_result
           ELSE Value(id_ex_instr, regs, mem, csr, id_ex_pc)

\* An Xcew instruction writes back an earlier one's result, if one waits.
RegisterFile(in) ==
    LET commits == id_ex_valid /\ ~trap_taken(in)
        dest == CASE commits /\ Writes(id_ex_instr)    -> id_ex_instr.rd
                  [] commits /\ IsXcew /\ xcew_valid   -> o_xcew_req.rd
                  [] OTHER                             -> 0
    IN  /\ rf_we' = (dest # 0)
        /\ regs' = Write(regs, dest, wb_data)
        /\ mem' = IF commits /\ id_ex_instr.op = "store"
                    THEN Read(regs, id_ex_instr.rs) ELSE mem

MachineCsrs(in) ==
    csr' = CASE trap_taken(in) -> TrapCsr(csr, id_ex_pc, trap_cause)
             [] id_ex_valid /\ ~trap_taken(in) -> CsrAfter(id_ex_instr, regs, csr)
             [] OTHER -> csr

DebugState(in) ==
    /\ debug_mode' = (in.reset \/ debug_enter(in) \/ (debug_mode /\ ~debug_exit(in)))
    /\ debug_single_step' = IF debug_exit(in) THEN dcsr = "step"
                            ELSE debug_single_step
    /\ step_armed' = (/\ ~debug_step_reenter(in) /\ debug_single_step
                      /\ step_armed \/ debug_exit(in))
    /\ dcsr' = IF in.dcsr # None THEN in.dcsr ELSE dcsr
    /\ dpc' = CASE in.reset -> 0
                [] ~in.reset /\ debug_step_reenter(in) -> (id_ex_pc + 1) % Width
                [] ~in.reset /\ debug_enter(in) /\ ~debug_step_reenter(in) -> id_ex_pc
                [] OTHER -> dpc
    /\ ran' = CASE debug_exit(in) -> 0
                [] ~debug_mode /\ id_ex_valid /\ id_ex_instr # Nop /\ ran < 2 -> ran + 1
                [] OTHER -> ran
    /\ rom_left' = IF debug_enter(in) THEN RomWords + 2      \* two stages behind the fetch
                   ELSE IF debug_exit(in) \/ trap_taken(in) \/ rom_left = 0 THEN 0
                   ELSE rom_left - 1
    /\ asked' = [halts  |-> asked.halts  + IF in.halt THEN 1 ELSE 0,
                 resets |-> asked.resets + IF in.reset THEN 1 ELSE 0]

Tick(in) ==
    /\ Allowed(in)
    /\ FetchStage(in) /\ DecodeStage(in)
    /\ XcewRegisters(in) /\ RegisterFile(in) /\ MachineCsrs(in)
    /\ DebugState(in)

Next == \E in \in Inputs : Tick(in)

Spec == Init /\ [][Next]_vars

\* The clock runs, whether a debugger asks for anything or not, and every accepted
\* Xcew operation is answered in the end.
Clock == Next /\ UNCHANGED asked
Answered == Clock /\ (xcew_pending => xcew_pending' = FALSE)
LiveSpec == Spec /\ WF_vars(Clock) /\ SF_vars(Answered)

----------------------------------------------------------------------------
TypeOK ==
    /\ pc_reg \in Word /\ if_pc \in Word /\ id_ex_pc \in Word /\ dpc \in Word
    /\ if_instr \in Instr /\ id_ex_instr \in Instr /\ o_xcew_req \in Instr
    /\ id_ex_valid \in BOOLEAN /\ redirect_r \in BOOLEAN /\ rf_we \in BOOLEAN
    /\ regs \in [Regs -> Word] /\ mem \in Word /\ csr \in Csrs
    /\ xcew_pending \in BOOLEAN /\ xcew_valid \in BOOLEAN
    /\ xcew_result \in Word /\ operand \in Word \cup {NoOperand}
    /\ debug_mode \in BOOLEAN /\ debug_single_step \in BOOLEAN
    /\ step_armed \in BOOLEAN /\ dcsr \in {"plain", "step", "ebreakm"}
    /\ ran \in 0 .. 2 /\ rom_left \in 0 .. RomWords + 2
    /\ asked \in [halts : 0 .. MaxHalts, resets : 0 .. MaxResets]

\* The pc of the next instruction to complete.
ArchPc == CASE debug_mode -> dpc
            [] ~debug_mode /\ id_ex_valid -> id_ex_pc
            [] ~debug_mode /\ ~id_ex_valid /\ redirect_r -> pc_reg
            [] OTHER -> if_pc

\* The pipeline runs a program as the one-instruction-at-a-time machine does:
\* wrong-path instructions leave no trace, interrupts fall between two
\* instructions, nothing is executed twice or skipped.
Machine == INSTANCE IsaMachine WITH pc <- ArchPc
ImplementsIsa == Machine!Spec

----------------------------------------------------------------------------
(* The Xcew handshake.                                                     *)

\* One instruction is already in ID/EX when the stall begins; it completes
\* once, and from then on nothing completes until the accelerator is done,
\* whose request does not change under it, even if that instruction is a
\* second request.
QuietWhileStalled ==
    [][xcew_pending /\ xcew_pending' =>
        /\ ~id_ex_valid' /\ (~id_ex_valid => UNCHANGED arch)
        /\ o_xcew_req' = o_xcew_req]_vars

\* If every accepted operation is answered and the hart is not halted, a
\* program that loops (over pc 6) goes on for ever.
LoopGoesOn == [](asked.halts = 0) => []<>(id_ex_valid /\ id_ex_pc = 6)

----------------------------------------------------------------------------
(* Debug mode.                                                             *)

\* For as many cycles as the debug ROM has words, and two more, a hart that was
\* halted fetches from there: the stall of an operation it had started does not
\* keep it out, nor does the answer let it go.
RomHolds == rom_left > 0 => debug_mode /\ pc_reg \in Rom .. Rom + RomWords + 1

\* Where the hart is, with the types of all that says so.
WhereHeld == TypeOK /\ RomHolds

\* In those cycles it changes no register and no memory, not even when an Xcew
\* operation it had started answers; an interrupt may be taken, nothing else
\* changes its CSRs.
HaltedIsQuiet ==
    [][rom_left > 0 =>
        /\ UNCHANGED <<regs, mem>>
        /\ csr' \in {csr, TrapCsr(csr, id_ex_pc, Width - 1)}]_vars

\* Resuming goes on at dpc, whatever was in the pipeline.
ResumesAtDpc == [][debug_mode /\ ~debug_mode' => ArchPc' = dpc]_vars

----------------------------------------------------------------------------
(***************************************************************************)
(* What the documents say and this pipeline does not do.  Each formula is  *)
(* violated; README.md says which run or which constants show it.          *)
(***************************************************************************)

\* rtl/debug/debug_rom.v:17: "Park loop (executed when hart is halted, waits
\* for resume)".  The loop is never served; a halted hart runs off the ROM.
Parked == debug_mode => pc_reg \in {Rom, Rom + 1, Rom + 2}

\* The same line: what waits for a resume changes nothing.
HaltedChangesNothing == [][debug_mode => UNCHANGED arch]_vars

\* README.md:96: the pipeline stalls until the Xcew unit is done.
StallsUntilDone == [][xcew_pending /\ xcew_pending' => UNCHANGED arch]_vars

\* docs/sw/PROGRAMMING_MODEL.md:54: rs1 is the input operand.
OperandIsRs1 ==
    operand # NoOperand => operand = Read(regs, o_xcew_req.rs)

\* docs/sw/PROGRAMMING_MODEL.md:46 and :55: the result goes to rd only.
ResultGoesToRd ==
    [][xcew_valid /\ regs' # regs
        => regs' = Write(regs, o_xcew_req.rd, xcew_result)]_vars

\* docs/sw/ABI.md:49: no Xcew operation is in flight when a handler starts.
NoXcewAcrossTrap ==
    [][csr.MIE = 1 /\ csr'.MIE = 0 /\ csr'.mepc = id_ex_pc
        => ~xcew_pending' /\ ~xcew_valid']_vars

\* riscv_core.v:1012: dpc is the current instruction, not yet completed.
HaltBeforeCompletion ==
    [][~debug_mode /\ debug_mode' /\ dpc' = id_ex_pc => UNCHANGED arch]_vars

\* After a halt the program goes on where it was: the saved pc is that of an
\* instruction the program was about to run.
HaltSavesNextPc ==
    [][~debug_mode /\ debug_mode' /\ ~id_ex_valid => dpc' = ArchPc]_vars

\* riscv_core.v:931: with dcsr.step set, a resume runs one instruction.
StepRunsOne == debug_single_step /\ ~debug_mode => ran <= 1

\* The same line: debug mode is entered after that instruction completes.
StepCompletesOne ==
    [][\A in \in Inputs : Tick(in) /\ debug_step_reenter(in) => ran' = 1]_vars
=============================================================================
