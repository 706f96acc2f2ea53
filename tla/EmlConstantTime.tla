---------------------------- MODULE EmlConstantTime ----------------------------
(***************************************************************************)
(* rtl/eml/eml_constant_time.v: the padded path that answers EML           *)
(* instructions when sec_ctrl[0] is set.  The operation comes from         *)
(* cfg[7:0].  A result is represented by what it was computed from.        *)
(***************************************************************************)
EXTENDS Naturals

CONSTANTS
    Operation,      \* "NOP", "EXP", "LN", "SUB", "MUL", "ADD", "DIV", "PASS"
    SignsDiffer     \* the operands whose two signs differ

VARIABLES
    state, rs_reg, cycle_counter, padding_cycles, result_reg, valid_out

NoOperands == "nothing"     \* registers after reset: signs equal, cfg 0
Zero == "zero"              \* the result of a NOP

Init ==
    /\ state = "IDLE" /\ rs_reg = NoOperands /\ cycle_counter = 0
    /\ padding_cycles = 0 /\ result_reg = Zero /\ valid_out = FALSE

FixedCycles ==
    [NOP |-> 5, PASS |-> 5, SUB |-> 5, ADD |-> 5,
     EXP |-> 30, LN |-> 25, MUL |-> 15, DIV |-> 40]

\* cfg[0] is the lowest bit of the operation's code.  The condition looks at
\* registers that stay, so a branch cut never ends its own stall.
BranchCut == Operation \in {"EXP", "SUB", "ADD"} /\ rs_reg \in SignsDiffer

\* Two cycles in FINALIZE: valid_out rises in the first, falls in the second.
Valid == IF state = "FINALIZE" THEN ~valid_out ELSE valid_out

\* With const_time_en; without it nothing reads this unit.
Clock(valid, operand) ==
    LET starts == state = "IDLE" /\ valid IN
    /\ state' =
          CASE BranchCut                                              -> "STALL_BRANCH"
            [] starts /\ ~BranchCut                                   -> "EXECUTE"
            [] state = "EXECUTE" /\ ~BranchCut                        -> "PAD"
            [] state = "PAD" /\ cycle_counter >= padding_cycles /\ ~BranchCut -> "FINALIZE"
            [] state = "FINALIZE" /\ valid_out /\ ~BranchCut          -> "IDLE"
            [] state = "STALL_BRANCH" /\ cycle_counter >= 12 /\ ~BranchCut    -> "IDLE"
            [] OTHER                                                  -> state
    /\ rs_reg' = IF starts THEN operand ELSE rs_reg
    /\ cycle_counter' = CASE BranchCut -> 0
                          [] starts /\ ~BranchCut -> 1
                          [] state \in {"PAD", "STALL_BRANCH"} /\ ~BranchCut -> cycle_counter + 1
                          [] OTHER -> cycle_counter
    /\ padding_cycles' = IF state = "EXECUTE" THEN FixedCycles[Operation] - 3
                         ELSE padding_cycles
    /\ result_reg' = IF state # "EXECUTE" THEN result_reg
                     ELSE IF Operation = "NOP" THEN Zero ELSE rs_reg
    /\ valid_out' = Valid
=============================================================================
