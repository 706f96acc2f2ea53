SPECIFICATION FairSpec
CONSTANTS
    Range = 8
    Window = 10
    Refractory = 1
    Threshold = 3
    Rest = 0
    Ttfs = TRUE
    NumNeurons = 2
    Currents = {1, 2}
INVARIANTS WinnerTakesAll CountsAreSound
PROPERTIES SpikesApart ClassificationEnds
