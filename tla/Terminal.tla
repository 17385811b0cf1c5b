------------------------------ MODULE Terminal ------------------------------
(***************************************************************************)
(* What a text console promises the person who looks at it: a grid of      *)
(* cells, a cursor, text appearing at the cursor, lines that wrap at the   *)
(* right edge and a grid that scrolls up when the last line is left.       *)
(***************************************************************************)
EXTENDS Naturals

CONSTANTS NumRows, NumCols,   \* the size of the grid
          TabSize,            \* the most cells a tab may blank
          Cells,              \* what one cell may show
          Blank               \* the cell that shows nothing

VARIABLES screen, row, col

vars == <<screen, row, col>>

EmptyRow == [c \in 1..NumCols |-> Blank]

Init == /\ screen = [r \in 1..NumRows |-> EmptyRow]
        /\ row = 1
        /\ col = 1

\* The grid and the row of the cursor once the cursor has gone to a new line.
Scrolled(s) == [r \in 1..NumRows |-> IF r = NumRows THEN EmptyRow ELSE s[r + 1]]
GridBelow == IF row = NumRows THEN Scrolled(screen) ELSE screen
RowBelow == IF row = NumRows THEN row ELSE row + 1

\* A character appears at the cursor, on the next line if this one is full.
Text(x) ==
    LET wraps == col = NumCols + 1
        s == IF wraps THEN GridBelow ELSE screen
        r == IF wraps THEN RowBelow ELSE row
        c == IF wraps THEN 1 ELSE col
    IN  /\ screen' = [s EXCEPT ![r][c] = x]
        /\ row' = r
        /\ col' = c + 1

NewLine == /\ screen' = GridBelow
           /\ row' = RowBelow
           /\ col' = 1

\* The last character of the line goes away.
Erase == /\ col > 1
         /\ screen' = [screen EXCEPT ![row][col - 1] = Blank]
         /\ col' = col - 1
         /\ UNCHANGED row

\* A tab is made of a few equal cells of the same line.
Tab(n, x) ==
    /\ col + n <= NumCols
    /\ screen' = [screen EXCEPT ![row] = [c \in 1..NumCols |->
                     IF c \in col..(col + n - 1) THEN x ELSE @[c]]]
    /\ col' = col + n
    /\ UNCHANGED row

Next == \/ \E x \in Cells : Text(x) \/ \E n \in 1..TabSize : Tab(n, x)
        \/ NewLine
        \/ Erase

Spec == Init /\ [][Next]_vars
=============================================================================
