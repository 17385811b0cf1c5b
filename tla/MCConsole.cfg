SPECIFICATION SpecConsole
CONSTANTS
    NumRows = 2
    NumCols = 6
    TabSize = 2
    EscapeSize = 8
    FieldSize = 2
    Strings <- MCStrings
    Keys <- MCKeys
    LongInput = FALSE
    Erases = TRUE
    MaxPuts = 8
INVARIANTS CursorsAgree BufferHoldsScreen WritesStayInside
 
CHECK_DEADLOCK FALSE
