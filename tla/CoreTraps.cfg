SPECIFICATION Spec
CONSTANTS
    Program <- TrapProgram
    Regs = {0, 1, 2, 3, 4}
    Width = 32
    XcewResult <- Answers
    Rom = 28
    RomWords = 2
    Irqs = {0, 1}
    DmWrites = {}
    MaxHalts = 0
    MaxResets = 0
PROPERTIES ImplementsIsa
