SPECIFICATION FairSpec
CONSTANTS
    Tiles = {"core", "eml"}
    Core = "core"
    Timeouts = {0, 2}
    Limits = {0, 1}
    CounterRange = 6
    ErrorInputs <- Errors
    PinValues <- Pins
INVARIANTS InUseGoesOn StatusNamesFault
PROPERTIES FaultsAreReported WatchdogBites
