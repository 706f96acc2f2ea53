------------------------------ MODULE OptPass ------------------------------
(***************************************************************************)
(* XcewOptPass::runOnMachineFunction of toolchain/XcewOptPass.cpp: a walk  *)
(* over the instructions of a function that erases an EML instruction when *)
(* one that it takes for equal was met before.  Control flow is not in it: *)
(* the pass has none either.  The second walk, rebuildDAGWithCSE, changes  *)
(* nothing.                                                                *)
(***************************************************************************)
EXTENDS Integers, Sequences, FiniteSets, Functions

CONSTANTS
    Opcodes, EmlOpcodes,
    Word,                   \* an unsigned wraps here, 2^32
    MachineFunctions        \* sequences of blocks, as given to the pass

\* Register numbers are unsigned; immediates have 64 bits; other operands are symbols,
\* frame indices and the like.
Registers == 0 .. Word - 1
Operands ==
    { o \in [kind : {"reg", "imm", "other"}, value : Int] :
        o.kind = "reg" => o.value \in Registers }

\* dest is the first operand, uses are all the others.
Instructions == [opcode : Opcodes, uses : Seq(Operands), dest : Registers]

ASSUME FunctionsAssumption ==
    /\ EmlOpcodes \subseteq Opcodes
    /\ Word \in Nat \ {0}
    /\ \A f \in MachineFunctions :
        /\ f \in Seq(Seq(Instructions))
        /\ Len(f) > 0

VARIABLES
    MF,             \* the function as it was given
    block, at,      \* MBB and MI, by number in MF
    cse_map,        \* [nodes met -> place they were first met at]
    erased,         \* places of the erased instructions
    Changed,
    done            \* the pass has returned Changed

vars == <<MF, block, at, cse_map, erased, Changed, done>>

Init ==
    /\ MF \in MachineFunctions
    /\ block = 1 /\ at = 1
    /\ cse_map = << >>
    /\ erased = {}
    /\ Changed = FALSE
    /\ done = FALSE

Places == UNION { {b} \X (1 .. Len(MF[b])) : b \in 1 .. Len(MF) }
Before(p, q) == p[1] < q[1] \/ (p[1] = q[1] /\ p[2] < q[2])
Instr(p) == MF[p[1]][p[2]]

\* isEMLInstruction
IsEML(i) == i.opcode \in EmlOpcodes

\* node.operands: registers and immediates side by side as unsigned numbers that do not
\* tell which they were, and no operand of another kind.
Collected(i) ==
    LET known == SelectSeq(i.uses, LAMBDA o : o.kind # "other")
    IN [k \in DOMAIN known |-> known[k].value % Word]

\* Mutant: operands are not compared.
NodeNoOperands(i) == <<i.opcode>>
\* DAGNode: what makes two instructions equal; the destination is not in it.
Node(i) == <<i.opcode, Collected(i)>>

Here == <<block, at>>
InBlock == ~done /\ at <= Len(MF[block])

Pass ==
    /\ InBlock
    /\ ~IsEML(Instr(Here))
    /\ at' = at + 1
    /\ UNCHANGED <<MF, block, cse_map, erased, Changed, done>>

Record ==
    /\ InBlock
    /\ IsEML(Instr(Here))
    /\ Node(Instr(Here)) \notin DOMAIN cse_map
    /\ cse_map' = [n \in DOMAIN cse_map \union {Node(Instr(Here))} |->
                    IF n \in DOMAIN cse_map THEN cse_map[n] ELSE Here]
    /\ at' = at + 1
    /\ UNCHANGED <<MF, block, erased, Changed, done>>

AtEnd == at = Len(MF[block])

\* erase returns the next instruction, and the loop goes on with the one after it.
AfterErase == IF AtEnd THEN at + 1 ELSE at + 2

Erase ==
    /\ InBlock
    /\ IsEML(Instr(Here))
    /\ Node(Instr(Here)) \in DOMAIN cse_map
    /\ erased' = erased \union {Here}
    /\ at' = AfterErase
    /\ Changed' = (Changed \/ ~AtEnd)
    /\ UNCHANGED <<MF, block, cse_map, done>>

\* Mutant: what was met is forgotten at the end of a block.
MetInFunctionForgets == << >>
MetInFunction == cse_map

ChangedInFunction == Changed

NextBlock ==
    /\ ~done
    /\ at > Len(MF[block])
    /\ IF block < Len(MF)
       THEN block' = block + 1 /\ at' = 1 /\ cse_map' = MetInFunction
            /\ Changed' = ChangedInFunction /\ UNCHANGED done
       ELSE done' = TRUE /\ UNCHANGED <<block, at, cse_map, Changed>>
    /\ UNCHANGED <<MF, erased>>

Next == Pass \/ Record \/ Erase \/ NextBlock

Spec == Init /\ [][Next]_vars
-----------------------------------------------------------------------------
(* Properties.                                                             *)

\* The pass takes two instructions for equal: opcode and collected operands agree.
Same(i, j) == i.opcode = j.opcode /\ Collected(i) = Collected(j)

Kept == Places \ erased

\* An instruction that the pass takes for equal to p stays, before p in the layout.
Repeats(p) == \E q \in Kept : Before(q, p) /\ Same(Instr(q), Instr(p))

\* The variables have their types.
TypeOK ==
    /\ MF \in Seq(Seq(Instructions)) /\ Len(MF) > 0
    /\ block \in 1 .. Len(MF)
    /\ at \in 1 .. Len(MF[block]) + 1
    /\ \A n \in DOMAIN cse_map : cse_map[n] \in Places
    /\ erased \subseteq Places
    /\ Changed \in BOOLEAN /\ done \in BOOLEAN

\* Only EML instructions are erased, and of those taken for equal one stays in front of
\* each that goes, however many erasures and passed-over instructions come between.
OnlyRepeatsErased == \A p \in erased : IsEML(Instr(p)) /\ Repeats(p)

\* What makes it inductive: the places recorded are kept and lie before the walk.
RecordedStay ==
    \A n \in DOMAIN cse_map :
        /\ Node(Instr(cse_map[n])) = n
        /\ IsEML(Instr(cse_map[n]))
        /\ cse_map[n] \notin erased
        /\ Before(cse_map[n], Here)

\* Of two EML instructions taken for equal that both stay, one is right behind an erased
\* instruction: the increment of the loop after the erase goes past it, so that it
\* is neither erased nor recorded.
BehindErased(p) == <<p[1], p[2] - 1>> \in erased
LeftoversFollowErased ==
    done => \A p, q \in Kept :
                /\ Before(q, p) /\ Same(Instr(q), Instr(p))
                /\ IsEML(Instr(p))
                => BehindErased(p) \/ BehindErased(q)

\* The pass says that it changed the function only if it did, and stays silent
\* only if all that it erased were the last instructions of their blocks.
ChangedTells ==
    IF Changed THEN erased # {}
    ELSE \A p \in erased : p[2] = Len(MF[p[1]])

-----------------------------------------------------------------------------
(* Deviations: what a pass owes and this one does not.                     *)

\* Violated: the flag is lost when the erased instruction ends its block.
ChangedIsHonest == done /\ erased # {} => Changed

\* Violated: "Eliminate redundant computation": all repeats are erased.
NoRepeatLeft == done => \A p \in Kept : ~(IsEML(Instr(p)) /\ Repeats(p))

\* Violated: "Found CSE": the one that stays has the operands of the erased one, not only
\* the same numbers among those that were collected.
SameOperands ==
    \A p \in erased :
        \E q \in Kept : Before(q, p) /\ Same(Instr(q), Instr(p)) /\ Instr(q).uses = Instr(p).uses

\* Violated: "Eliminate redundant computation": if the one that stays is in the same
\* block, no instruction between the two writes a register that both read.
Reads(p) == { o.value : o \in { u \in Range(Instr(p).uses) : u.kind = "reg" } }
OperandsUntouched ==
    \A p \in erased :
        \E q \in Kept :
            /\ Before(q, p) /\ Same(Instr(q), Instr(p))
            /\ \A w \in Places :
                  w[1] = q[1] /\ w[1] = p[1] /\ Before(q, w) /\ Before(w, p)
                      => Instr(w).dest \notin Reads(p)

\* Violated: "replace uses of dest_reg": an instruction that stays reads a
\* register whose last writer in its block is still there.
Writers(p, r) == { q \in Places : q[1] = p[1] /\ Before(q, p) /\ Instr(q).dest = r }
UsesStayDefined ==
    \A p \in Kept : \A r \in Reads(p) :
        \A q \in Writers(p, r) :
            q \in erased => \E w \in Writers(p, r) : Before(q, w)
=============================================================================
