-------------------------- MODULE RiscvCoreProofs --------------------------
(***************************************************************************)
(* For every program without Xcew instructions, every register width and   *)
(* every timing of the interrupt input, the pipeline of RiscvCore runs the *)
(* program as IsaMachine does, provided the debugger stays away.  The      *)
(* invariant names the five shapes the front of the pipeline can have.     *)
(***************************************************************************)
EXTENDS RiscvCore, TLAPS

Plain == \A a \in DOMAIN Program : Program[a].op # "xcew"
Alone == MaxHalts = 0 /\ MaxResets = 0

\* No accelerator, no debugger.
Undisturbed ==
    /\ ~debug_mode /\ ~debug_single_step /\ dcsr = "plain"
    /\ ~xcew_pending /\ ~xcew_valid
    /\ asked.halts = 0 /\ asked.resets = 0

Succ(a) == (a + 1) % Width

\* Behind ID/EX the next two pcs have been sent out.
Ahead(a) == if_instr = Fetch(a) /\ if_pc = a /\ pc_reg = Succ(a)

Reset0 ==       \* the cycle after reset
    /\ ~id_ex_valid /\ ~redirect_r /\ csr.mtvec = 0
    /\ if_instr = Zero /\ if_pc = 0 /\ pc_reg = 0
Reset1 ==       \* the reset value of if_instr is in ID/EX
    /\ id_ex_valid /\ ~redirect_r /\ csr.mtvec = 0
    /\ id_ex_instr = Zero /\ id_ex_pc = 0 /\ Ahead(0)
Flowing ==
    /\ id_ex_valid /\ ~redirect_r
    /\ id_ex_instr = Fetch(id_ex_pc) /\ Ahead(Succ(id_ex_pc))
Redirected ==   \* the cycle after a redirect
    ~id_ex_valid /\ redirect_r
Refilled ==     \* and the one after that
    ~id_ex_valid /\ ~redirect_r /\ Ahead(if_pc)

PipeInv ==
    /\ Undisturbed
    /\ id_ex_valid \in BOOLEAN /\ redirect_r \in BOOLEAN
    /\ Reset0 \/ Reset1 \/ Flowing \/ Redirected \/ Refilled

\* What is fetched is never an Xcew instruction.
LEMMA FetchPlain == ASSUME Plain PROVE \A a : Fetch(a).op # "xcew"
  BY DEF Plain, Fetch, DebugRom, Nop

\* In an undisturbed step no debug event occurs and nothing stalls.
LEMMA QuietStep ==
  ASSUME Alone, Undisturbed, NEW in \in Inputs, Allowed(in)
  PROVE  /\ ~stall(in) /\ ~debug_enter(in) /\ ~debug_exit(in)
         /\ ~debug_step_reenter(in) /\ ~in.done /\ ~in.reset /\ ~in.halt
         /\ in.dcsr = None
  BY DEF Alone, Undisturbed, Inputs, Allowed, stall, debug_enter, debug_exit,
         debug_step_reenter, None

\* The registers outside the pipeline after an undisturbed step.
LEMMA StaysUndisturbed ==
  ASSUME Alone, Undisturbed, Plain, NEW in \in Inputs, Tick(in),
         id_ex_valid => ~IsXcew
  PROVE  Undisturbed'
<1>1. /\ ~stall(in) /\ ~debug_enter(in) /\ ~debug_exit(in)
      /\ ~debug_step_reenter(in) /\ ~in.done /\ ~in.reset /\ ~in.halt
      /\ in.dcsr = None
  BY QuietStep DEF Tick
<1>2. ~debug_mode' /\ ~debug_single_step' /\ dcsr' = "plain"
  BY <1>1 DEF Tick, DebugState, Undisturbed
<1>3. asked'.halts = 0 /\ asked'.resets = 0
  BY <1>1 DEF Tick, DebugState, Undisturbed
<1>4. ~xcew_pending' /\ ~xcew_valid'
  BY <1>1 DEF Tick, XcewRegisters, Undisturbed, Completes
<1> QED BY <1>2, <1>3, <1>4 DEF Undisturbed

\* What an undisturbed step does to the front of the pipeline.
LEMMA FrontStep ==
  ASSUME Alone, Undisturbed, NEW in \in Inputs, Tick(in)
  PROVE  /\ id_ex_instr' = if_instr /\ id_ex_pc' = if_pc
         /\ id_ex_valid' = (~redirect(in) /\ ~redirect_r)
         /\ redirect_r' = redirect(in)
         /\ (trap_taken(in) \/ mret_taken(in)) => pc_reg' = next_pc(in)
         /\ ~(trap_taken(in) \/ mret_taken(in)) =>
               pc_reg' = next_pc(in) /\ if_instr' = Fetch(pc_reg) /\ if_pc' = pc_reg
         /\ next_pc(in) = IF trap_taken(in) THEN csr.mtvec
                          ELSE IF mret_taken(in) THEN csr.mepc
                          ELSE IF pc_sel_jump THEN id_ex_instr.k
                          ELSE Succ(pc_reg)
<1>1. ~stall(in) /\ ~debug_enter(in) /\ ~debug_exit(in)
  BY QuietStep DEF Tick
<1>2. next_pc(in) = IF trap_taken(in) THEN csr.mtvec
                    ELSE IF mret_taken(in) THEN csr.mepc
                    ELSE IF pc_sel_jump THEN id_ex_instr.k
                    ELSE Succ(pc_reg)
  BY <1>1 DEF next_pc, Succ
<1> QED BY <1>1, <1>2 DEF Tick, FetchStage, DecodeStage, flush

\* Each shape of the pipeline leads to one of the five.
LEMMA ShapeStep ==
  ASSUME Alone, Plain, PipeInv, NEW in \in Inputs, Tick(in)
  PROVE  PipeInv'
<1>1. Undisturbed BY DEF PipeInv
<1>2. id_ex_valid => ~IsXcew
  BY FetchPlain DEF PipeInv, Reset0, Reset1, Flowing, Redirected, Refilled, IsXcew, Zero, Nop
<1>3. Undisturbed'
  BY <1>1, <1>2, StaysUndisturbed
<1>4. id_ex_valid' \in BOOLEAN /\ redirect_r' \in BOOLEAN
  BY <1>1, FrontStep DEF redirect, pc_sel_jump, trap_taken, mret_taken
<1>5. ASSUME ~id_ex_valid
      PROVE  ~trap_taken(in) /\ ~mret_taken(in) /\ ~pc_sel_jump /\ ~redirect(in)
  BY <1>5 DEF trap_taken, mret_taken, pc_sel_jump, redirect
<1>6. CASE Reset0
  <2>1. csr' = csr
    BY <1>6, <1>5 DEF Reset0, Tick, MachineCsrs
  <2>2. pc_reg' = Succ(0) /\ if_instr' = Fetch(0) /\ if_pc' = 0
    BY <1>1, <1>5, <1>6, FrontStep DEF Reset0
  <2>3. id_ex_valid' /\ ~redirect_r' /\ id_ex_instr' = Zero /\ id_ex_pc' = 0
    BY <1>1, <1>5, <1>6, FrontStep DEF Reset0
  <2>4. Reset1'
    BY <2>1, <2>2, <2>3, <1>6 DEF Reset0, Reset1, Ahead
  <2> QED BY <2>4, <1>3, <1>4 DEF PipeInv
<1>7. CASE Reset1
  <2>1. ~redirect(in) /\ ~trap_taken(in) /\ ~mret_taken(in) /\ ~pc_sel_jump
    BY <1>7 DEF Reset1, redirect, trap_taken, mret_taken, pc_sel_jump, Jumps, Zero, Nop
  <2>2. /\ id_ex_instr' = Fetch(0) /\ id_ex_pc' = 0 /\ id_ex_valid' /\ ~redirect_r'
    BY <1>1, <1>7, <2>1, FrontStep DEF Reset1, Ahead
  <2>3. if_instr' = Fetch(Succ(0)) /\ if_pc' = Succ(0) /\ pc_reg' = Succ(Succ(0))
    BY <1>1, <1>7, <2>1, FrontStep DEF Reset1, Ahead
  <2>4. Flowing'
    BY <2>2, <2>3 DEF Flowing, Ahead, Succ
  <2> QED BY <2>4, <1>3, <1>4 DEF PipeInv
<1>8. CASE Flowing
  <2>1. CASE redirect(in)
    <3>1. ~id_ex_valid' /\ redirect_r'
      BY <1>1, <2>1, FrontStep
    <3> QED BY <3>1, <1>3, <1>4 DEF PipeInv, Redirected
  <2>2. CASE ~redirect(in)
    <3>1. /\ id_ex_instr' = if_instr /\ id_ex_pc' = if_pc /\ id_ex_valid' /\ ~redirect_r'
      BY <1>1, <1>8, <2>2, FrontStep DEF Flowing
    <3>2. if_instr' = Fetch(pc_reg) /\ if_pc' = pc_reg /\ pc_reg' = Succ(pc_reg)
      BY <1>1, <2>2, FrontStep DEF redirect
    <3>3. Flowing'
      BY <3>1, <3>2, <1>8 DEF Flowing, Ahead, Succ
    <3> QED BY <3>3, <1>3, <1>4 DEF PipeInv
  <2> QED BY <2>1, <2>2
<1>9. CASE Redirected
  <2>1. ~id_ex_valid' /\ ~redirect_r'
    BY <1>1, <1>5, <1>9, FrontStep DEF Redirected
  <2>2. if_instr' = Fetch(pc_reg) /\ if_pc' = pc_reg /\ pc_reg' = Succ(pc_reg)
    BY <1>1, <1>5, <1>9, FrontStep DEF Redirected
  <2>3. Refilled'
    BY <2>1, <2>2 DEF Refilled, Ahead, Succ
  <2> QED BY <2>3, <1>3, <1>4 DEF PipeInv
<1>10. CASE Refilled
  <2>1. /\ id_ex_instr' = Fetch(if_pc) /\ id_ex_pc' = if_pc /\ id_ex_valid' /\ ~redirect_r'
    BY <1>1, <1>5, <1>10, FrontStep DEF Refilled, Ahead
  <2>2. if_instr' = Fetch(pc_reg) /\ if_pc' = pc_reg /\ pc_reg' = Succ(pc_reg)
    BY <1>1, <1>5, <1>10, FrontStep DEF Refilled
  <2>3. Flowing'
    BY <2>1, <2>2, <1>10 DEF Refilled, Flowing, Ahead, Succ
  <2> QED BY <2>3, <1>3, <1>4 DEF PipeInv
<1> QED BY <1>6, <1>7, <1>8, <1>9, <1>10 DEF PipeInv

\* The registers, the memory and the CSRs in an undisturbed step.
LEMMA ArchStep ==
  ASSUME Undisturbed, NEW in \in Inputs, Tick(in), id_ex_valid => ~IsXcew
  PROVE  /\ regs' = IF id_ex_valid /\ ~trap_taken(in) /\ Writes(id_ex_instr)
                    THEN Write(regs, id_ex_instr.rd,
                               Value(id_ex_instr, regs, mem, csr, id_ex_pc))
                    ELSE regs
         /\ mem' = IF id_ex_valid /\ ~trap_taken(in) /\ id_ex_instr.op = "store"
                   THEN Read(regs, id_ex_instr.rs) ELSE mem
         /\ csr' = IF trap_taken(in) THEN TrapCsr(csr, id_ex_pc, trap_cause)
                   ELSE IF id_ex_valid THEN CsrAfter(id_ex_instr, regs, csr)
                   ELSE csr
<1>1. wb_data = Value(id_ex_instr, regs, mem, csr, id_ex_pc)
  BY DEF wb_data, Undisturbed
<1>2. ASSUME NEW v PROVE Write(regs, 0, v) = regs
  BY DEF Write
<1>3. CASE id_ex_valid /\ ~trap_taken(in) /\ Writes(id_ex_instr)
  BY <1>1, <1>3 DEF Tick, RegisterFile, MachineCsrs
<1>4. CASE ~(id_ex_valid /\ ~trap_taken(in) /\ Writes(id_ex_instr))
  <2>1. regs' = Write(regs, 0, wb_data)
    BY <1>4 DEF Tick, RegisterFile
  <2> QED BY <2>1, <1>2, <1>4 DEF Tick, RegisterFile, MachineCsrs, trap_taken
<1> QED BY <1>3, <1>4

\* The instance of IsaMachine has its own copy of the operators of RvIsa.
LEMMA SameIsa ==
         /\ Machine!CsrReset = CsrReset
         /\ \A a : Machine!Fetch(a) = Fetch(a)
         /\ \A x, a : Machine!Read(x, a) = Read(x, a)
         /\ \A x, a, v : Machine!Write(x, a, v) = Write(x, a, v)
         /\ \A i, x : Machine!Jumps(i, x) = Jumps(i, x)
         /\ \A i : Machine!Exception(i) = Exception(i)
         /\ \A i : Machine!Cause(i) = Cause(i)
         /\ \A c : Machine!IrqEnabled(c) = IrqEnabled(c)
         /\ \A c, a, k : Machine!TrapCsr(c, a, k) = TrapCsr(c, a, k)
         /\ \A i : Machine!Writes(i) = Writes(i)
         /\ \A i, x, m, c, a : Machine!Value(i, x, m, c, a) = Value(i, x, m, c, a)
         /\ \A i, x, c : Machine!CsrAfter(i, x, c) = CsrAfter(i, x, c)
  BY DEF Fetch, DebugRom, Nop, Read, Write, Jumps, Exception, Cause,
         IrqEnabled, TrapCsr, Writes, IsCsrOp, Value, CsrRead, CsrAfter,
         CsrWrite, MretCsr, CsrReset, Machine!Fetch, Machine!DebugRom,
         Machine!Nop, Machine!Read, Machine!Write, Machine!Jumps,
         Machine!Exception, Machine!Cause, Machine!IrqEnabled,
         Machine!TrapCsr, Machine!Writes, Machine!IsCsrOp,
         Machine!Value, Machine!CsrRead, Machine!CsrAfter,
         Machine!CsrWrite, Machine!MretCsr, Machine!CsrReset

\* Every clock edge is a step of the abstract machine or leaves it alone.
LEMMA IsaStep ==
  ASSUME Alone, Plain, PipeInv, NEW in \in Inputs, Tick(in)
  PROVE  [Machine!Next]_(Machine!isaVars)
<1>1. Undisturbed BY DEF PipeInv
<1>2. id_ex_valid => ~IsXcew
  BY FetchPlain DEF PipeInv, Reset0, Reset1, Flowing, Redirected, Refilled, IsXcew, Zero, Nop
<1>3. ~debug_mode /\ ~debug_mode'
  BY <1>1, <1>2, StaysUndisturbed DEF Undisturbed
<1>4. ASSUME ~id_ex_valid
      PROVE  /\ ~trap_taken(in) /\ ~mret_taken(in) /\ ~pc_sel_jump /\ ~redirect(in)
             /\ regs' = regs /\ mem' = mem /\ csr' = csr
  <2>1. ~trap_taken(in) /\ ~mret_taken(in) /\ ~pc_sel_jump /\ ~redirect(in)
    BY <1>4 DEF trap_taken, mret_taken, pc_sel_jump, redirect
  <2> QED BY <1>1, <1>2, <1>4, <2>1, ArchStep
<1>5. CASE Reset0
  <2>1. ArchPc = 0 /\ ArchPc' = 0
    BY <1>1, <1>3, <1>4, <1>5, FrontStep DEF Reset0, ArchPc
  <2> QED BY <2>1, <1>4, <1>5 DEF Machine!isaVars, Reset0
<1>6. CASE Reset1
  <2>1. ~redirect(in) /\ ~trap_taken(in) /\ ~Writes(id_ex_instr)
        /\ id_ex_instr.op # "store" /\ CsrAfter(id_ex_instr, regs, csr) = csr
    BY <1>6 DEF Reset1, redirect, trap_taken, mret_taken, pc_sel_jump, Jumps,
                Zero, Nop, Writes, IsCsrOp, CsrAfter
  <2>2. ArchPc = 0 /\ ArchPc' = 0
    BY <1>1, <1>3, <1>6, <2>1, FrontStep DEF Reset1, Ahead, ArchPc
  <2>3. regs' = regs /\ mem' = mem /\ csr' = csr
    BY <1>1, <1>2, <2>1, ArchStep
  <2> QED BY <2>2, <2>3 DEF Machine!isaVars
<1>7. CASE Flowing
  <2> DEFINE i == id_ex_instr
  <2>1. ArchPc = id_ex_pc /\ i = Fetch(ArchPc) /\ i.op # "xcew"
    BY <1>2, <1>3, <1>7 DEF Flowing, ArchPc, IsXcew
  <2>2. CASE trap_taken(in)
    <3>1. redirect(in) BY <2>2 DEF redirect
    <3>2. ArchPc' = csr.mtvec
      BY <1>1, <1>3, <2>2, <3>1, FrontStep DEF ArchPc
    <3>3. regs' = regs /\ mem' = mem /\ csr' = TrapCsr(csr, ArchPc, trap_cause)
      BY <1>1, <1>2, <2>1, <2>2, ArchStep
    <3>4. Machine!Trap(trap_cause)
      BY <2>2, <3>2, <3>3, SameIsa DEF Machine!Trap, trap_taken
    <3>5. CASE Exception(i)
      BY <2>1, <3>4, <3>5, SameIsa DEF Machine!Next, Machine!Raise, trap_cause
    <3>6. CASE ~Exception(i)
      <4>1. IrqEnabled(csr) BY <2>2, <3>6 DEF trap_taken
      <4>2. trap_cause = Width - 1
        BY <3>6 DEF trap_cause, Cause, Exception
      <4> QED BY <2>1, <3>4, <3>6, <4>1, <4>2, SameIsa DEF Machine!Next, Machine!Interrupt
    <3> QED BY <3>5, <3>6
  <2>3. CASE ~trap_taken(in)
    <3>1. Exception(i) => csr.mtvec = 0
      BY <1>1, <1>7, <2>3 DEF trap_taken, Flowing, Undisturbed
    <3>2. /\ regs' = IF Writes(i) THEN Write(regs, i.rd, Value(i, regs, mem, csr, ArchPc))
                     ELSE regs
          /\ mem' = IF i.op = "store" THEN Read(regs, i.rs) ELSE mem
          /\ csr' = CsrAfter(i, regs, csr)
      BY <1>1, <1>2, <1>7, <2>1, <2>3, ArchStep DEF Flowing
    <3>3. ArchPc' = IF i.op = "mret" THEN csr.mepc
                    ELSE IF Jumps(i, regs) THEN i.k ELSE (ArchPc + 1) % Width
      <4>1. CASE redirect(in)
        <5>1. ~id_ex_valid' /\ redirect_r' /\ pc_reg' = next_pc(in)
          BY <1>1, <4>1, FrontStep
        <5>2. ArchPc' = next_pc(in)
          BY <1>3, <5>1 DEF ArchPc
        <5>3. i.op = "mret" \/ Jumps(i, regs)
          BY <2>3, <4>1 DEF redirect, mret_taken, pc_sel_jump
        <5>4. next_pc(in) = IF i.op = "mret" THEN csr.mepc ELSE i.k
          BY <1>1, <1>7, <2>3, <5>3, FrontStep DEF mret_taken, pc_sel_jump, Flowing
        <5> QED BY <5>2, <5>3, <5>4
      <4>2. CASE ~redirect(in)
        <5>1. i.op # "mret" /\ ~Jumps(i, regs)
          BY <1>7, <2>3, <4>2 DEF redirect, mret_taken, pc_sel_jump, Flowing
        <5>2. id_ex_valid' /\ id_ex_pc' = if_pc
          BY <1>1, <1>7, <4>2, FrontStep DEF Flowing
        <5>3. ArchPc' = Succ(ArchPc)
          BY <1>3, <1>7, <2>1, <5>2 DEF ArchPc, Flowing, Ahead
        <5> QED BY <5>1, <5>3 DEF Succ
      <4> QED BY <4>1, <4>2
    <3>4. ~(i.op = "mret" /\ Jumps(i, regs))
      BY DEF Jumps
    <3>5. Machine!Execute
      BY <2>1, <3>1, <3>2, <3>3, <3>4, SameIsa DEF Machine!Execute
    <3> QED BY <3>5 DEF Machine!Next
  <2> QED BY <2>2, <2>3
<1>8. CASE Redirected
  <2>1. ArchPc = pc_reg /\ ArchPc' = pc_reg
    BY <1>1, <1>3, <1>4, <1>8, FrontStep DEF Redirected, ArchPc
  <2> QED BY <2>1, <1>4, <1>8 DEF Machine!isaVars, Redirected
<1>9. CASE Refilled
  <2>1. ArchPc = if_pc /\ ArchPc' = if_pc
    BY <1>1, <1>3, <1>4, <1>9, FrontStep DEF Refilled, ArchPc
  <2> QED BY <2>1, <1>4, <1>9 DEF Machine!isaVars, Refilled
<1> QED BY <1>5, <1>6, <1>7, <1>8, <1>9 DEF PipeInv

\* The five shapes are all there are.
THEOREM PipelineInvariant ==
  ASSUME Alone, Plain PROVE Spec => []PipeInv
<1>1. Init => PipeInv
  <2> SUFFICES ASSUME Init PROVE PipeInv
    OBVIOUS
  <2>1. Undisturbed
    BY DEF Init, Undisturbed
  <2>2. csr.mtvec = 0
    BY DEF Init, CsrReset
  <2>3. Reset0
    BY <2>2 DEF Init, Reset0
  <2>4. id_ex_valid \in BOOLEAN /\ redirect_r \in BOOLEAN
    BY DEF Init
  <2> QED BY <2>1, <2>3, <2>4 DEF PipeInv
<1>2. PipeInv /\ [Next]_vars => PipeInv'
  <2>1. SUFFICES ASSUME PipeInv, [Next]_vars PROVE PipeInv'
    OBVIOUS
  <2>2. CASE UNCHANGED vars
    BY <2>1, <2>2 DEF vars, pipe, arch, xcew, debug, PipeInv, Undisturbed, Reset0,
       Reset1, Flowing, Redirected, Refilled, Ahead
  <2>3. CASE Next
    BY <2>1, <2>3, ShapeStep DEF Next
  <2> QED BY <2>1, <2>2, <2>3
<1> QED BY <1>1, <1>2, PTL DEF Spec

\* The pipeline implements the one-instruction-at-a-time machine: whatever the
\* program and whenever the interrupt is raised, no instruction is skipped,
\* repeated, or executed on a wrong path.
THEOREM Implementation ==
  ASSUME Alone, Plain PROVE Spec => ImplementsIsa
<1>1. Init => Machine!Init
  BY SameIsa DEF Init, Machine!Init, ArchPc
<1>2. PipeInv /\ [Next]_vars => [Machine!Next]_(Machine!isaVars)
  <2>1. SUFFICES ASSUME PipeInv, [Next]_vars PROVE [Machine!Next]_(Machine!isaVars)
    OBVIOUS
  <2>2. CASE UNCHANGED vars
    BY <2>2 DEF vars, pipe, arch, xcew, debug, Machine!isaVars, ArchPc
  <2>3. CASE Next
    BY <2>1, <2>3, IsaStep DEF Next
  <2> QED BY <2>1, <2>2, <2>3
<1> QED BY <1>1, <1>2, PipelineInvariant, PTL DEF Spec, Machine!Spec, ImplementsIsa

----------------------------------------------------------------------------
(* What holds for every program, Xcew instructions and debugger included.  *)

\* While the accelerator works, the one instruction that was behind the request completes and the
\* request does not change, whatever the debugger and the interrupts do.
THEOREM StallIsQuiet == Spec => QuietWhileStalled
<1>1. ASSUME NEW in \in Inputs, Tick(in), xcew_pending, xcew_pending'
      PROVE  /\ ~id_ex_valid' /\ (~id_ex_valid => UNCHANGED arch)
             /\ o_xcew_req' = o_xcew_req
  <2>1. stall(in)
    BY <1>1 DEF Tick, XcewRegisters, Completes, stall
  <2>2. ~id_ex_valid' BY <1>1, <2>1 DEF Tick, DecodeStage
  <2>3. o_xcew_req' = o_xcew_req BY <1>1 DEF Tick, XcewRegisters
  <2>4. ASSUME ~id_ex_valid PROVE UNCHANGED arch
    <3>1. csr' = csr /\ mem' = mem
      BY <1>1, <2>4 DEF Tick, MachineCsrs, RegisterFile, trap_taken
    <3>2. regs' = Write(regs, 0, wb_data)
      BY <1>1, <2>4 DEF Tick, RegisterFile
    <3> QED BY <3>1, <3>2 DEF Write, arch
  <2> QED BY <2>2, <2>3, <2>4
<1>2. [Next]_vars => [xcew_pending /\ xcew_pending' =>
                        /\ ~id_ex_valid' /\ (~id_ex_valid => UNCHANGED arch)
                        /\ o_xcew_req' = o_xcew_req]_vars
  BY <1>1 DEF Next
<1> QED BY <1>2, PTL DEF Spec, QuietWhileStalled

\* Whatever the pipeline holds when the debugger resumes the hart, and even
\* while an operation is pending, the next instruction to run is the one at dpc.
THEOREM ResumeCorrect == Spec => ResumesAtDpc
<1>1. ASSUME NEW in \in Inputs, Tick(in), debug_mode, ~debug_mode'
      PROVE  ArchPc' = dpc
  <2>1. debug_exit(in) /\ ~debug_enter(in)
    BY <1>1 DEF Tick, DebugState, debug_enter, debug_step_reenter
  <2>2. pc_reg' = dpc /\ if_pc' = dpc
    BY <1>1, <2>1 DEF Tick, FetchStage, next_pc
  <2>3. ~id_ex_valid'
    BY <1>1, <2>1 DEF Tick, DecodeStage, flush
  <2> QED BY <1>1, <2>2, <2>3 DEF ArchPc
<1>2. [Next]_vars => [debug_mode /\ ~debug_mode' => ArchPc' = dpc]_vars
  BY <1>1 DEF Next
<1> QED BY <1>2, PTL DEF Spec, ResumesAtDpc

(***************************************************************************)
(* A halted hart.  As long as the history variable is positive the words   *)
(* fetched are the debug ROM's, all of them no-ops; its count tells how    *)
(* far the pc can have come, hence what the two stages behind it hold.     *)
(***************************************************************************)
HeldInv ==
    /\ rom_left \in 0 .. RomWords + 2
    /\ rom_left > 0 =>
         /\ debug_mode /\ pc_reg \in Rom .. Rom + (RomWords + 2 - rom_left)
         /\ rom_left > 1 => if_instr = Nop
         /\ id_ex_valid => id_ex_instr = Nop

\* No word of the debug ROM but the one at address 0 is anything but a no-op.
LEMMA RomWord == ASSUME NEW a \in Rom .. Rom + RomWords - 1 PROVE Fetch(a) = Nop
<1>1. a # 0 BY IsaAssumption
<1> QED BY <1>1 DEF Fetch, DebugRom

\* A no-op in ID/EX, or nothing, redirects nothing but by an interrupt.
LEMMA NopFront ==
  ASSUME NEW in \in Inputs, id_ex_valid => id_ex_instr = Nop
  PROVE  /\ ~mret_taken(in) /\ ~pc_sel_jump /\ ~(id_ex_valid /\ IsXcew)
         /\ id_ex_valid => CsrAfter(id_ex_instr, regs, csr) = csr
         /\ trap_taken(in) => trap_cause = Width - 1
<1>1. CASE ~id_ex_valid
  BY <1>1 DEF mret_taken, pc_sel_jump, trap_taken
<1>2. CASE id_ex_valid
  <2>1. id_ex_instr = Nop /\ Nop.op = "addi" BY <1>2 DEF Nop
  <2>2. CsrAfter(id_ex_instr, regs, csr) = csr BY <2>1 DEF CsrAfter
  <2>3. trap_cause = Width - 1 BY <2>1 DEF trap_cause, Cause
  <2> QED BY <2>1, <2>2, <2>3 DEF mret_taken, pc_sel_jump, Jumps, IsXcew
<1> QED BY <1>1, <1>2

\* A cycle of a halted hart that has one of them left afterwards.
LEMMA HeldOn ==
  ASSUME HeldInv, NEW in \in Inputs, Tick(in), ~debug_enter(in), rom_left' > 0
  PROVE  HeldInv'
<1>1. /\ ~debug_exit(in) /\ ~trap_taken(in)
      /\ rom_left > 1 /\ rom_left' = rom_left - 1 /\ RomWords \in Nat
  BY IsaAssumption DEF HeldInv, Tick, DebugState
<1>2. /\ debug_mode /\ if_instr = Nop /\ (id_ex_valid => id_ex_instr = Nop)
      /\ pc_reg \in Rom .. Rom + (RomWords + 2 - rom_left)
  BY <1>1 DEF HeldInv
<1>3. debug_mode'
  BY <1>1, <1>2 DEF Tick, DebugState
<1>4. ~mret_taken(in) /\ ~pc_sel_jump
  BY <1>2, NopFront
<1>5. rom_left' \in 0 .. RomWords + 2
  BY <1>1 DEF HeldInv
<1>6. CASE stall(in)
  <2>1. UNCHANGED <<pc_reg, if_instr>> /\ ~id_ex_valid'
    BY <1>1, <1>4, <1>6 DEF Tick, FetchStage, DecodeStage
  <2>2. pc_reg' \in Rom .. Rom + (RomWords + 2 - rom_left')
    BY <1>1, <1>2, <2>1, IsaAssumption DEF HeldInv
  <2> QED BY <1>2, <1>3, <1>5, <2>1, <2>2 DEF HeldInv
<1>7. CASE ~stall(in)
  <2>1. /\ pc_reg' = (pc_reg + 1) % Width /\ if_instr' = Fetch(pc_reg)
        /\ id_ex_instr' = if_instr
    BY <1>1, <1>4, <1>7 DEF Tick, FetchStage, DecodeStage, next_pc
  <2>2. pc_reg' = pc_reg + 1
    <3>1. pc_reg + 1 \in Nat /\ pc_reg + 1 < Width
      BY <1>1, <1>2, IsaAssumption DEF HeldInv
    <3>2. Width \in Nat \ {0} BY IsaAssumption
    <3>3. \A m \in Nat, w \in Nat \ {0} : m < w => m % w = m OBVIOUS
    <3> QED BY <2>1, <3>1, <3>2, <3>3
  <2>3. pc_reg' \in Rom .. Rom + (RomWords + 2 - rom_left')
    BY <1>1, <1>2, <2>2, IsaAssumption DEF HeldInv
  <2>4. rom_left' > 1 => if_instr' = Nop
    <3>1. ASSUME rom_left' > 1 PROVE pc_reg \in Rom .. Rom + RomWords - 1
      BY <1>1, <1>2, <3>1, IsaAssumption DEF HeldInv
    <3> QED BY <2>1, <3>1, RomWord
  <2> QED BY <1>2, <1>3, <1>5, <2>1, <2>3, <2>4 DEF HeldInv
<1> QED BY <1>6, <1>7

LEMMA HeldStep == ASSUME HeldInv, NEW in \in Inputs, Tick(in) PROVE HeldInv'
<1>1. rom_left' \in 0 .. RomWords + 2
  BY IsaAssumption DEF HeldInv, Tick, DebugState
<1>2. CASE debug_enter(in)
  <2>1. pc_reg' = Rom /\ if_instr' = Nop
    BY <1>2 DEF Tick, FetchStage, next_pc
  <2>2. ~id_ex_valid' BY <1>2 DEF Tick, DecodeStage, flush
  <2>3. debug_mode' /\ rom_left' = RomWords + 2
    BY <1>2 DEF Tick, DebugState
  <2>4. Rom \in Rom .. Rom + (RomWords + 2 - rom_left')
    BY <2>3, IsaAssumption
  <2> QED BY <1>1, <2>1, <2>2, <2>3, <2>4 DEF HeldInv
<1>3. CASE ~debug_enter(in) /\ rom_left' > 0
  BY <1>3, HeldOn
<1>4. CASE ~(rom_left' > 0)
  BY <1>1, <1>4 DEF HeldInv
<1> QED BY <1>2, <1>3, <1>4

LEMMA HeldAlways == Spec => []HeldInv
<1>1. Init => HeldInv BY IsaAssumption DEF Init, HeldInv
<1>2. HeldInv /\ [Next]_vars => HeldInv'
  <2>1. SUFFICES ASSUME HeldInv, [Next]_vars PROVE HeldInv'
    OBVIOUS
  <2>2. CASE UNCHANGED vars
    BY <2>1, <2>2 DEF vars, pipe, debug, HeldInv
  <2>3. CASE Next
    BY <2>1, <2>3, HeldStep DEF Next
  <2> QED BY <2>1, <2>2, <2>3
<1> QED BY <1>1, <1>2, PTL DEF Spec

\* Whatever the program, the interrupts, and what the accelerator answers
\* meanwhile: a hart that the debugger, an ebreak or a step has halted changes no
\* register and no memory while it runs the words of the debug ROM.
THEOREM HaltIsQuiet == Spec => HaltedIsQuiet
<1>1. ASSUME HeldInv, rom_left > 0, NEW in \in Inputs, Tick(in)
      PROVE  /\ UNCHANGED <<regs, mem>>
             /\ csr' \in {csr, TrapCsr(csr, id_ex_pc, Width - 1)}
  <2>1. id_ex_valid => id_ex_instr = Nop BY <1>1 DEF HeldInv
  <2>2. /\ ~(id_ex_valid /\ IsXcew)
        /\ id_ex_valid => CsrAfter(id_ex_instr, regs, csr) = csr
        /\ trap_taken(in) => trap_cause = Width - 1
    BY <2>1, NopFront
  <2>3. csr' \in {csr, TrapCsr(csr, id_ex_pc, Width - 1)}
    BY <1>1, <2>2 DEF Tick, MachineCsrs
  <2>4. id_ex_valid => id_ex_instr.rd = 0 /\ id_ex_instr.op # "store"
    BY <2>1 DEF Nop
  <2>5. mem' = mem BY <1>1, <2>4 DEF Tick, RegisterFile
  <2>6. regs' = Write(regs, 0, wb_data) BY <1>1, <2>2, <2>4 DEF Tick, RegisterFile
  <2> QED BY <2>3, <2>5, <2>6 DEF Write
<1>2. HeldInv /\ [Next]_vars
      => [rom_left > 0 => /\ UNCHANGED <<regs, mem>>
                          /\ csr' \in {csr, TrapCsr(csr, id_ex_pc, Width - 1)}]_vars
  BY <1>1 DEF Next
<1> QED BY <1>2, HeldAlways, PTL DEF Spec, HaltedIsQuiet

----------------------------------------------------------------------------
(* Types, for every program, with interrupts, halts and resets.            *)

LEMMA InstrTypes == Nop \in Instr /\ Zero \in Instr
<1>1. 0 \in Regs /\ 0 \in Word /\ "mepc" \in CsrNames
  BY IsaAssumption DEF Word, CsrNames
<1>2. "addi" \in Ops /\ "illegal" \in Ops
  BY DEF Ops
<1>3. Nop \in Instr
  BY <1>1, <1>2 DEF Nop, Instr
<1>4. Zero \in Instr
  <2>1. Zero = [Nop EXCEPT !.op = "illegal"] BY DEF Zero
  <2> QED BY <1>2, <1>3, <2>1 DEF Instr
<1> QED BY <1>3, <1>4

LEMMA FetchType == \A a : Fetch(a) \in Instr
<1>1. ASSUME NEW a, a \in Rom .. Rom + RomWords - 1 PROVE Fetch(a) \in Instr
  BY <1>1, InstrTypes, RomWord
<1>2. ASSUME NEW a, a \notin Rom .. Rom + RomWords - 1 PROVE Fetch(a) \in Instr
  BY <1>2, InstrTypes, IsaAssumption DEF Fetch
<1> QED BY <1>1, <1>2

LEMMA ReadType ==
  ASSUME NEW x \in [Regs -> Word], NEW r \in Regs
  PROVE  Read(x, r) \in Word
BY IsaAssumption DEF Read, Word

LEMMA WriteType ==
  ASSUME NEW x \in [Regs -> Word], NEW r \in Regs, NEW v \in Word
  PROVE  Write(x, r, v) \in [Regs -> Word]
BY DEF Write

LEMMA CsrReadType ==
  ASSUME NEW c \in Csrs, NEW n \in CsrNames
  PROVE  CsrRead(c, n) \in Word
<1>1. CASE n = "mstatus"
  <2>1. CsrRead(c, n) = c.MIE + 2 * c.MPIE BY <1>1 DEF CsrRead
  <2>2. c.MIE \in {0, 1} /\ c.MPIE \in {0, 1} BY DEF Csrs
  <2> QED BY <2>1, <2>2, IsaAssumption DEF Word
<1>2. CASE n = "mie"
  <2>1. CsrRead(c, n) = c.meie BY <1>2 DEF CsrRead
  <2>2. c.meie \in {0, 1} BY DEF Csrs
  <2> QED BY <2>1, <2>2, IsaAssumption DEF Word
<1>3. CASE n \in {"mtvec", "mepc", "mcause"}
  <2>1. CsrRead(c, n) = c[n] BY <1>3 DEF CsrRead
  <2>2. c.mtvec \in Word /\ c.mepc \in Word /\ c.mcause \in Word BY DEF Csrs
  <2> QED BY <1>3, <2>1, <2>2
<1> QED BY <1>1, <1>2, <1>3 DEF CsrNames

LEMMA CsrWriteType ==
  ASSUME NEW c \in Csrs, NEW n \in CsrNames, NEW v \in Word
  PROVE  CsrWrite(c, n, v) \in Csrs
<1>1. v % 2 \in {0, 1} /\ (v \div 2) % 2 \in {0, 1}
  BY IsaAssumption DEF Word
<1>2. CASE n = "mstatus"
  <2>1. CsrWrite(c, n, v) = [c EXCEPT !.MIE = v % 2, !.MPIE = (v \div 2) % 2]
    BY <1>2 DEF CsrWrite
  <2> HIDE DEF CsrWrite
  <2> QED BY <1>1, <2>1 DEF Csrs
<1>3. CASE n = "mie"
  <2>1. CsrWrite(c, n, v) = [c EXCEPT !.meie = v % 2] BY <1>3 DEF CsrWrite
  <2> QED BY <1>1, <2>1 DEF Csrs
<1>4. CASE n \in {"mtvec", "mepc", "mcause"}
  <2>1. CsrWrite(c, n, v) = [c EXCEPT ![n] = v] BY <1>4 DEF CsrWrite
  <2> QED BY <1>4, <2>1 DEF Csrs
<1> QED BY <1>2, <1>3, <1>4 DEF CsrNames

LEMMA CauseType == \A i : Cause(i) \in Word
BY IsaAssumption DEF Cause, Word

LEMMA TrapType ==
  ASSUME NEW c \in Csrs, NEW a \in Word, NEW k \in Word
  PROVE  TrapCsr(c, a, k) \in Csrs
BY DEF TrapCsr, Csrs

LEMMA CsrAfterType ==
  ASSUME NEW i \in Instr, NEW x \in [Regs -> Word], NEW c \in Csrs
  PROVE  CsrAfter(i, x, c) \in Csrs
<1>1. i.rs \in Regs /\ i.k \in Word /\ i.csr \in CsrNames BY DEF Instr
<1>2. CASE i.op = "csrrw"
  <2>1. CsrAfter(i, x, c) = CsrWrite(c, i.csr, Read(x, i.rs)) BY <1>2 DEF CsrAfter
  <2> QED BY <1>1, <2>1, ReadType, CsrWriteType
<1>3. CASE i.op = "csrrwi"
  <2>1. CsrAfter(i, x, c) = CsrWrite(c, i.csr, i.k) BY <1>3 DEF CsrAfter
  <2> QED BY <1>1, <2>1, CsrWriteType
<1>4. CASE i.op = "mret"
  <2>1. CsrAfter(i, x, c) = MretCsr(c) BY <1>4 DEF CsrAfter
  <2>2. MretCsr(c) \in Csrs BY DEF MretCsr, Csrs
  <2> QED BY <2>1, <2>2
<1>5. CASE i.op \notin {"csrrw", "csrrwi", "mret"}
  BY <1>5 DEF CsrAfter
<1> QED BY <1>2, <1>3, <1>4, <1>5

LEMMA ValueType ==
  ASSUME NEW i \in Instr, NEW x \in [Regs -> Word], NEW m \in Word,
         NEW c \in Csrs, NEW a \in Word
  PROVE  Value(i, x, m, c, a) \in Word
<1>1. i.rs \in Regs /\ i.k \in Word /\ i.csr \in CsrNames BY DEF Instr
<1>2. \A v \in Nat : v % Width \in Word BY IsaAssumption DEF Word
<1>3. Read(x, i.rs) + i.k \in Nat /\ a + 1 \in Nat
  <2>1. Read(x, i.rs) \in Word BY <1>1, ReadType
  <2>2. \A u, v \in Word : u + v \in Nat /\ u + 1 \in Nat BY IsaAssumption DEF Word
  <2> QED BY <1>1, <2>1, <2>2
<1>4. CASE IsCsrOp(i)
  <2>1. Value(i, x, m, c, a) = CsrRead(c, i.csr) BY <1>4 DEF Value, IsCsrOp
  <2> QED BY <1>1, <2>1, CsrReadType
<1>5. CASE i.op = "load"
  <2>1. Value(i, x, m, c, a) = m BY <1>5 DEF Value, IsCsrOp
  <2> QED BY <2>1
<1>6. CASE i.op = "jal"
  <2>1. Value(i, x, m, c, a) = (a + 1) % Width BY <1>6 DEF Value, IsCsrOp
  <2> QED BY <1>2, <1>3, <2>1
<1>7. CASE ~IsCsrOp(i) /\ i.op \notin {"load", "jal"}
  <2>1. Value(i, x, m, c, a) = (Read(x, i.rs) + i.k) % Width BY <1>7 DEF Value
  <2> QED BY <1>2, <1>3, <2>1
<1> QED BY <1>4, <1>5, <1>6, <1>7

LEMMA NextAddress == ASSUME NEW a \in Word PROVE (a + 1) % Width \in Word
<1>1. a + 1 \in Nat /\ Width \in Nat /\ Width > 0 BY IsaAssumption DEF Word
<1>2. (a + 1) % Width \in 0 .. Width - 1 BY <1>1
<1> QED BY <1>2 DEF Word

LEMMA StepTypes ==
  ASSUME TypeOK, NEW in \in Inputs, Tick(in)
  PROVE  TypeOK'
<1> USE DEF TypeOK
<1>1. next_pc(in) \in Word
  <2>1. /\ Rom \in Word /\ dpc \in Word /\ csr.mtvec \in Word /\ csr.mepc \in Word
        /\ id_ex_instr.k \in Word /\ (pc_reg + 1) % Width \in Word
    <3>1. Rom \in Word /\ (pc_reg + 1) % Width \in Word
      <4>1. Rom \in Word BY IsaAssumption DEF Word
      <4> QED BY <4>1, NextAddress
    <3>2. csr.mtvec \in Word /\ csr.mepc \in Word BY DEF Csrs
    <3>3. id_ex_instr.k \in Word BY DEF Instr
    <3> QED BY <3>1, <3>2, <3>3
  <2> QED BY <2>1 DEF next_pc
<1>2. pc_reg' \in Word /\ if_pc' \in Word /\ if_instr' \in Instr
  BY <1>1, FetchType, InstrTypes DEF Tick, FetchStage
<1>3. id_ex_instr' \in Instr /\ id_ex_pc' \in Word
  BY DEF Tick, DecodeStage
<1>4. id_ex_valid' \in BOOLEAN /\ redirect_r' \in BOOLEAN
  BY DEF Tick, DecodeStage, flush, redirect, pc_sel_jump, trap_taken, mret_taken
<1>5. Operand \in Word
  <2>1. id_ex_instr.rs \in Regs BY DEF Instr
  <2> QED BY <2>1, ReadType DEF Operand
<1>6. /\ xcew_pending' \in BOOLEAN /\ xcew_valid' \in BOOLEAN
      /\ o_xcew_req' \in Instr
  BY DEF Tick, XcewRegisters, Completes
<1>7. xcew_result' \in Word /\ operand' \in Word \cup {NoOperand}
  BY <1>5, IsaAssumption DEF Tick, XcewRegisters
<1>8. wb_data \in Word
  BY ValueType DEF wb_data
<1>9. rf_we' \in BOOLEAN /\ regs' \in [Regs -> Word] /\ mem' \in Word
  <2>1. id_ex_instr.rd \in Regs /\ id_ex_instr.rs \in Regs /\ o_xcew_req.rd \in Regs
        /\ 0 \in Regs
    BY IsaAssumption DEF Instr
  <2>2. PICK d \in Regs : regs' = Write(regs, d, wb_data) /\ rf_we' = (d # 0)
    BY <2>1 DEF Tick, RegisterFile
  <2>3. regs' \in [Regs -> Word] BY <1>8, <2>2, WriteType
  <2>4. mem' \in Word BY <2>1, ReadType DEF Tick, RegisterFile
  <2> QED BY <2>2, <2>3, <2>4
<1>10. csr' \in Csrs
  <2>1. TrapCsr(csr, id_ex_pc, trap_cause) \in Csrs
    BY CauseType, TrapType DEF trap_cause
  <2>2. CsrAfter(id_ex_instr, regs, csr) \in Csrs BY CsrAfterType
  <2> QED BY <2>1, <2>2 DEF Tick, MachineCsrs
<1>11. /\ debug_mode' \in BOOLEAN /\ debug_single_step' \in BOOLEAN
       /\ step_armed' \in BOOLEAN
  BY DEF Tick, DebugState, Inputs
<1>12. dcsr' \in {"plain", "step", "ebreakm"}
  BY CoreAssumption DEF Tick, DebugState, Inputs, None
<1>13. dpc' \in Word
  <2>1. 0 \in Word BY IsaAssumption DEF Word
  <2>2. (id_ex_pc + 1) % Width \in Word BY NextAddress
  <2> QED BY <2>1, <2>2 DEF Tick, DebugState
<1>14. ran' \in 0 .. 2
  <2>1. ran' = 0 \/ ran' = ran \/ (ran < 2 /\ ran' = ran + 1)
    BY DEF Tick, DebugState
  <2> QED BY <2>1
<1>15. rom_left' \in 0 .. RomWords + 2
  BY IsaAssumption DEF Tick, DebugState
<1>16. asked' \in [halts : 0 .. MaxHalts, resets : 0 .. MaxResets]
  <2>1. /\ asked.halts + (IF in.halt THEN 1 ELSE 0) \in 0 .. MaxHalts
        /\ asked.resets + (IF in.reset THEN 1 ELSE 0) \in 0 .. MaxResets
    BY CoreAssumption DEF Tick, Allowed
  <2> QED BY <2>1 DEF Tick, DebugState
<1> QED BY <1>2, <1>3, <1>4, <1>6, <1>7, <1>9, <1>10, <1>11, <1>12, <1>13,
           <1>14, <1>15, <1>16

\* Every register of the pipeline keeps its type: no word leaves its width and
\* no fetch leaves the instruction set, whatever the inputs.
THEOREM TypeCorrect == Spec => []TypeOK
<1>1. Init => TypeOK
  <2> SUFFICES ASSUME Init PROVE TypeOK
    OBVIOUS
  <2>1. 0 \in Word BY IsaAssumption DEF Word
  <2>2. csr \in Csrs BY <2>1 DEF Init, CsrReset, Csrs
  <2>3. regs \in [Regs -> Word] BY <2>1 DEF Init
  <2>4. asked \in [halts : 0 .. MaxHalts, resets : 0 .. MaxResets]
    BY CoreAssumption DEF Init
  <2>5. /\ id_ex_valid \in BOOLEAN /\ redirect_r \in BOOLEAN /\ rf_we \in BOOLEAN
        /\ xcew_pending \in BOOLEAN /\ xcew_valid \in BOOLEAN
        /\ debug_mode \in BOOLEAN /\ debug_single_step \in BOOLEAN
        /\ step_armed \in BOOLEAN
    BY DEF Init
  <2>6. rom_left \in 0 .. RomWords + 2 BY IsaAssumption DEF Init
  <2> QED BY <2>1, <2>2, <2>3, <2>4, <2>5, <2>6, InstrTypes DEF Init, TypeOK
<1>2. TypeOK /\ [Next]_vars => TypeOK'
  <2> SUFFICES ASSUME TypeOK, [Next]_vars PROVE TypeOK'
    OBVIOUS
  <2>1. CASE UNCHANGED vars
    BY <2>1 DEF vars, pipe, arch, xcew, debug, TypeOK
  <2> QED BY <2>1, StepTypes DEF Next
<1> QED BY <1>1, <1>2, PTL DEF Spec

\* A halted hart fetches from the debug ROM for as long as its words last,
\* whatever the program, the interrupts and whatever it had started: no stall
\* keeps it out and no answer lets it go.
THEOREM HeldCorrect == Spec => []WhereHeld
<1>1. HeldInv => RomHolds
  BY IsaAssumption DEF HeldInv, RomHolds
<1> QED BY <1>1, HeldAlways, TypeCorrect, PTL DEF WhereHeld
=============================================================================
