SPECIFICATION Spec
CONSTANTS
    Opcodes = {"XE_EXP", "XE_LN", "MV"}
    EmlOpcodes = {"XE_EXP", "XE_LN"}
    Word = 8
    First = 4
    Second = 2
    MachineFunctions <- MCMachineFunctions
CHECK_DEADLOCK FALSE
INVARIANTS OnlyRepeatsErased LeftoversFollowErased
