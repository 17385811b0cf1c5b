SPECIFICATION SpecSpace
CONSTANTS
    ENTRIES = 6
    Start = {0, 2}
    MaxCall = 3
    MmioCrosses = FALSE
    MaxPage = 52
    Proc = {1, 2}
    First = 1
    Image <- MCImage
    MaxImage = 2
    StackPages = 2
    KernelCalls = {3}
    Writes <- MCWrites
INVARIANTS SeesOwnMemory IndexTracksAddress EveryPageMapped TablesAreWhole
CHECK_DEADLOCK FALSE
