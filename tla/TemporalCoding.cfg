SPECIFICATION CodingSpec
CONSTANTS
    FreqMHz = 250
    Micro = 1000000
    Word32 <- MCWord
    Windows <- MCWindows
    Refractories = {0, 1, 3}
    Policies = {0, 5, 10}
    DefaultWindow = 1000
    DefaultRefractory = 2
    DefaultThreshold = 5
    DefaultLeak = 1
    Blocks = {b1, b2}
    NULL = NULL
    MaxConfigs = 3
    Neurons = {n1}
    Currents <- MCCurrents
    MaxSince = 4
    MaxPotential = 7
    Magnitudes = {0, 3, 5}
    TimeCodes = 8
    Pairs = 7
    OutputSizes = {0, 1, 3}
    Times <- MCTimes
    WeightMax = 3
    Reach = 3
    Programs = {"neurons", "encoder", "learning", "registers"}
CHECK_DEADLOCK FALSE
INVARIANTS ConfigurationSound OneLostPerChange EncoderDeaf
PROPERTIES SpikesSpaced LearnsInDirection
