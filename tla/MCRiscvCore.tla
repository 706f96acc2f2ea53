---------------------------- MODULE MCRiscvCore ----------------------------
(***************************************************************************)
(* Programs for the pipeline model.  A program is a sequence of            *)
(* instructions; the one at position p lies at pc p - 1.                   *)
(***************************************************************************)
EXTENDS RiscvCore, Sequences

I(op, rd, rs, rt, k) ==
    [op |-> op, rd |-> rd, rs |-> rs, rt |-> rt, k |-> k, csr |-> "mepc"]
C(op, rd, name, rs, k) ==
    [op |-> op, rd |-> rd, rs |-> rs, rt |-> 0, k |-> k, csr |-> name]
AsProgram(s) == [a \in 0 .. Len(s) - 1 |-> s[a + 1]]

\* The accelerator's answer tells the operands apart.
Answers == [v \in Word |-> (v + 16) % Width]

\* A handler is installed at 13; the body stores, loads, branches both ways
\* and raises exceptions.  r3 and r4 belong to the handler, which steps over
\* the instruction that raised one and returns to one that was interrupted.
TrapProgram == AsProgram(<<
    I("addi", 1, 0, 0, 13), C("csrrw", 0, "mtvec", 1, 0), I("addi", 4, 0, 0, 31),
    C("csrrwi", 0, "mie", 0, 1), C("csrrwi", 0, "mstatus", 0, 1),
    I("addi", 1, 2, 0, 3), I("store", 0, 1, 0, 0), I("beq", 0, 1, 2, 5),
    I("ecall", 0, 0, 0, 0), I("load", 2, 0, 0, 0), I("beq", 0, 1, 0, 5),
    I("illegal", 0, 0, 0, 0), I("jal", 0, 0, 0, 5),
    C("csrr", 3, "mcause", 0, 0), I("beq", 0, 3, 4, 18), C("csrr", 3, "mepc", 0, 0),
    I("addi", 3, 3, 0, 1), C("csrrw", 0, "mepc", 3, 0), I("mret", 0, 0, 0, 0)>>)

\* Xcew instructions among others, two of them back to back, in a loop; what
\* falls out of it stays at 7.
XcewLoop(r) == AsProgram(<<
    I("addi", 1, r, 0, 1), I("xcew", 2, 1, 0, 0), I("xcew", 3, 2, 0, 0),
    I("store", 0, 2, 0, 0), I("xcew", 3, 3, 0, 0), I("addi", 3, 0, 0, 2),
    I("jal", 0, 0, 0, 0), I("jal", 0, 0, 0, 7)>>)
XcewProgram      == XcewLoop(1)     \* r1 counts
XcewDebugProgram == XcewLoop(0)     \* r1 stays at 1: fewer states

\* A loop closed by the instruction right behind an Xcew instruction.
XcewJumpProgram == AsProgram(<<
    I("addi", 1, 0, 0, 1), I("addi", 1, 0, 0, 2), I("xcew", 2, 1, 0, 0),
    I("store", 0, 1, 0, 0), I("addi", 1, 0, 0, 3), I("xcew", 2, 1, 0, 0),
    I("jal", 0, 0, 0, 0), I("jal", 0, 0, 0, 7)>>)

\* The same with a handler at 6 that saves mepc in r4, and interrupts enabled.
XcewTrapProgram == AsProgram(<<
    C("csrrwi", 0, "mtvec", 0, 6), C("csrrwi", 0, "mie", 0, 1),
    C("csrrwi", 0, "mstatus", 0, 1),
    I("xcew", 2, 1, 0, 0), I("addi", 1, 1, 0, 1), I("jal", 0, 0, 0, 3),
    C("csrr", 4, "mepc", 0, 0), I("mret", 0, 0, 0, 0)>>)

\* Straight-line arithmetic, a branch and a store, for the debugger.
DebugProgram == AsProgram(<<
    I("addi", 1, 1, 0, 4), I("addi", 2, 1, 0, 4), I("store", 0, 2, 0, 0),
    I("beq", 0, 0, 0, 0), I("addi", 3, 3, 0, 1)>>)
=============================================================================
