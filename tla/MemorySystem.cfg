SPECIFICATION FairSpec
CONSTANTS
    Addresses <- MCAddresses
    Region <- MCRegion
    Address0 = "r0"
    RomData <- MCRomData
    Unrouted = {"u0"}
    Words = {{3, 38}}
    LastPosition = 38
    Cells = {"c", "d"}
    Index <- MCIndex
    WearRange = 2
    UpsetCells = {"c"}
    UpsetPositions = {0, 4, 38}
INVARIANTS LoadsAreAnswered
PROPERTIES StoresStayHome NvmReadsEnd
