SPECIFICATION FairSpec
CONSTANTS
    Operands = {"a", "b", "c"}
    Hash <- SharedHash
    Index <- OneSlot
    MaxDepth = 0
    Operation = "PASS"
    SignsDiffer = {}
    PolicyType <- Types
    Modes <- Settings
INVARIANTS UnitsApart ResultUpToHash
PROPERTIES EveryRequestAnswered TimeoutOutlivesStall
