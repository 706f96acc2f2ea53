SPECIFICATION FairPathSpec
CONSTANTS
    Words = {w1, w2}
    ResetWord = zero
    Torn = torn
    SourceWaits = "quiet"
    Clocks = "dst_slower"
    ReadyAlways = TRUE
    NumNeurons = 2
    MaxSends = 3
    MaxClassifies = 2
INVARIANTS LoadIsStarved NothingMadeUp
PROPERTIES ClassifyArrives LinkRecovers
