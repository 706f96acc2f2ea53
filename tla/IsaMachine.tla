----------------------------- MODULE IsaMachine -----------------------------
(***************************************************************************)
(* What a program may rely on: one instruction at a time, each finished    *)
(* before the next begins.  An Xcew instruction leaves its result in its   *)
(* own rd; a trap is taken between two instructions and only once a        *)
(* handler is installed (mtvec nonzero).                                   *)
(***************************************************************************)
EXTENDS RvIsa

VARIABLES pc, regs, mem, csr

isaVars == <<pc, regs, mem, csr>>

Init ==
    /\ pc = 0 /\ mem = 0
    /\ regs = [r \in Regs |-> 0]
    /\ csr = CsrReset

Trap(cause) ==
    /\ csr.mtvec # 0
    /\ pc' = csr.mtvec
    /\ csr' = TrapCsr(csr, pc, cause)
    /\ UNCHANGED <<regs, mem>>

Interrupt == IrqEnabled(csr) /\ ~Exception(Fetch(pc)) /\ Trap(Width - 1)

Raise == Exception(Fetch(pc)) /\ Trap(Cause(Fetch(pc)))

Execute ==
    LET i == Fetch(pc) IN
    /\ Exception(i) => csr.mtvec = 0
    /\ pc' = CASE i.op = "mret"    -> csr.mepc
               [] Jumps(i, regs)   -> i.k
               [] OTHER            -> (pc + 1) % Width
    /\ regs' = CASE Writes(i)      -> Write(regs, i.rd, Value(i, regs, mem, csr, pc))
                 [] i.op = "xcew"  -> Write(regs, i.rd, XcewResult[Read(regs, i.rs)])
                 [] OTHER          -> regs
    /\ mem' = IF i.op = "store" THEN Read(regs, i.rs) ELSE mem
    /\ csr' = CsrAfter(i, regs, csr)

Next == Execute \/ Raise \/ Interrupt

Spec == Init /\ [][Next]_isaVars
=============================================================================
