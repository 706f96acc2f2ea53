SPECIFICATION ProgramSpec
CONSTANTS
    FaultCodes = {2, 3, 4}
    MaxFaults = 2
    Iterations = 2
    Duty = 3
    MaxCalls = 4
    CountWord = 8
CHECK_DEADLOCK FALSE
 
PROPERTIES FailuresReported 
