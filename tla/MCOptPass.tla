----------------------------- MODULE MCOptPass -----------------------------
(* All functions of a block of up to First instructions and one of up to      *)
(* Second, from six: one, the same with an operand that the pass skips, the   *)
(* same with an immediate for its register, one that reads another register,  *)
(* another operation, and one of another kind that redefines an operand.      *)
EXTENDS OptPass

CONSTANTS First, Second

Reg(r) == [kind |-> "reg", value |-> r]
Imm(v) == [kind |-> "imm", value |-> v]
Sym(v) == [kind |-> "other", value |-> v]
I(op, uses, dest) == [opcode |-> op, uses |-> uses, dest |-> dest]

\* The immediate is cut to the number of the register.
MCInstructions ==
    { I("XE_EXP", <<Reg(1)>>, 2), I("XE_EXP", <<Reg(1), Sym(7)>>, 3),
      I("XE_EXP", <<Imm(Word + 1)>>, 2), I("XE_EXP", <<Reg(3)>>, 2),
      I("XE_LN", <<Reg(1)>>, 2), I("MV", <<Reg(4)>>, 1) }

Blocks(n) == UNION { [1 .. k -> MCInstructions] : k \in 0 .. n }
MCMachineFunctions == Blocks(First) \X Blocks(Second)
=============================================================================
