SPECIFICATION SpecFs
CONSTANTS
    LastBlock = 4
    Name = {a, b}
    NoName = NoName
    BLOCK_SIZE = 2
    Length = {3}
    Offset = {0}
    Size = {2}
    MaxEntries = 256
    MaxDepth = 2
    MaxCrashes = 1
SYMMETRY Symmetry
CHECK_DEADLOCK FALSE
INVARIANTS OneEntryEach EveryFileFound 
PROPERTIES ImplementsTree CompleteStaysSafe
