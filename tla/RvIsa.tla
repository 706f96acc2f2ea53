------------------------------- MODULE RvIsa -------------------------------
(***************************************************************************)
(* The instructions of rtl/core/riscv_core.v as data: what each one        *)
(* computes from the register file, the M-mode CSRs, memory and the pc,    *)
(* without any pipeline.  An instruction is a record; a pc counts          *)
(* instructions, not bytes; memory is one cell.  One representative stands *)
(* for each class of instruction the core treats alike.                    *)
(***************************************************************************)
EXTENDS Naturals

CONSTANTS
    Program,    \* the instruction at each pc of the boot ROM, a function
    Rom,        \* the pc of the debug ROM, 0x800, laid over the boot ROM
    RomWords,   \* how many words of the boot ROM it covers: 64, to 0x8FF
    Regs,       \* register numbers, 0 among them
    Width,      \* registers, pcs and causes are below this bound (% 2^w)
    XcewResult  \* what the accelerator answers, a function of its operand

Word == 0 .. (Width - 1)
Ops  == {"addi", "load", "store", "jal", "beq", "csrrw", "csrrwi", "csrr",
         "ecall", "ebreak", "mret", "illegal", "xcew"}
CsrNames == {"mstatus", "mie", "mtvec", "mepc", "mcause"}

Instr == [op : Ops, rd : Regs, rs : Regs, rt : Regs, k : Word, csr : CsrNames]

ASSUME IsaAssumption ==
    /\ 0 \in Regs /\ Width \in Nat /\ Width > 31
    /\ Rom \in Nat \ {0} /\ RomWords \in Nat
    /\ Rom + RomWords + 1 < Width       \* the debug ROM and what is fetched behind it
    /\ Program \in [DOMAIN Program -> Instr] /\ XcewResult \in [Word -> Word]

Nop  == [op |-> "addi", rd |-> 0, rs |-> 0, rt |-> 0, k |-> 0, csr |-> "mepc"]
Zero == [Nop EXCEPT !.op = "illegal"]      \* the reset value 32'h0

\* The debug ROM is addressed by the pc, not by the offset into the ROM: its
\* jump to itself lies at address 0, which the top level never asks it for.
DebugRom(a) == IF a = 0 THEN [Nop EXCEPT !.op = "jal", !.k = a] ELSE Nop

\* What is fetched at a pc.
Fetch(a) == IF a \in Rom .. Rom + RomWords - 1 THEN DebugRom(a)
            ELSE IF a \in DOMAIN Program THEN Program[a] ELSE Nop

\* The machine CSRs; the mstatus bits MIE and MPIE, and MEIE of mie, apart.
Csrs == [MIE : {0, 1}, MPIE : {0, 1}, meie : {0, 1}, mtvec : Word,
         mepc : Word, mcause : Word]
CsrReset == [MIE |-> 0, MPIE |-> 0, meie |-> 0, mtvec |-> 0, mepc |-> 0,
             mcause |-> 0]

Read(regs, r) == IF r = 0 THEN 0 ELSE regs[r]
Write(regs, r, v) == IF r = 0 THEN regs ELSE [regs EXCEPT ![r] = v]

Jumps(i, regs) ==
    \/ i.op = "jal"
    \/ i.op = "beq" /\ Read(regs, i.rs) = Read(regs, i.rt)

\* mcause codes of the synchronous exceptions; Width - 1 stands for MEI.
Exception(i) == i.op \in {"illegal", "ecall", "ebreak"}
Cause(i) == CASE i.op = "illegal" -> 2
              [] i.op = "ecall"   -> 11
              [] i.op = "ebreak"  -> 3
              [] OTHER            -> Width - 1
IrqEnabled(csr) == csr.MIE = 1 /\ csr.meie = 1

CsrRead(csr, name) ==
    CASE name = "mstatus" -> csr.MIE + 2 * csr.MPIE
      [] name = "mie"     -> csr.meie
      [] OTHER            -> csr[name]
CsrWrite(csr, name, v) ==
    CASE name = "mstatus" -> [csr EXCEPT !.MIE = v % 2, !.MPIE = (v \div 2) % 2]
      [] name = "mie"     -> [csr EXCEPT !.meie = v % 2]
      [] OTHER            -> [csr EXCEPT ![name] = v]
TrapCsr(csr, pc, cause) ==
    [csr EXCEPT !.mepc = pc, !.mcause = cause, !.MPIE = csr.MIE, !.MIE = 0]
MretCsr(csr) == [csr EXCEPT !.MIE = csr.MPIE, !.MPIE = 1]

IsCsrOp(i) == i.op \in {"csrrw", "csrrwi", "csrr"}
Writes(i)  == IsCsrOp(i) \/ i.op \in {"addi", "load", "jal"}

\* The value an instruction other than Xcew leaves in its rd (wb_data).
Value(i, regs, mem, csr, pc) ==
    CASE IsCsrOp(i)    -> CsrRead(csr, i.csr)
      [] i.op = "load" -> mem
      [] i.op = "jal"  -> (pc + 1) % Width
      [] OTHER         -> (Read(regs, i.rs) + i.k) % Width

\* The CSRs after an instruction that does not trap.
CsrAfter(i, regs, csr) ==
    CASE i.op = "csrrw"  -> CsrWrite(csr, i.csr, Read(regs, i.rs))
      [] i.op = "csrrwi" -> CsrWrite(csr, i.csr, i.k)
      [] i.op = "mret"   -> MretCsr(csr)
      [] OTHER           -> csr
=============================================================================
