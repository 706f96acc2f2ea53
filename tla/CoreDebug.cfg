SPECIFICATION LiveSpec
CONSTANTS
    Program <- XcewDebugProgram
    Regs = {0, 1, 2, 3, 4}
    Width = 32
    XcewResult <- Answers
    Rom = 28
    RomWords = 2
    Irqs = {0}
    DmWrites = {"step"}
    MaxHalts = 2
    MaxResets = 0
INVARIANTS WhereHeld
PROPERTIES QuietWhileStalled LoopGoesOn HaltedIsQuiet ResumesAtDpc
