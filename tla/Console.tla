------------------------------ MODULE Console ------------------------------
(***************************************************************************)
(* The text console of the GUI (kernel/vui/console.c): the buffer of rows, *)
(* the cursor kept twice (row and column, pixel x and y), colour escape    *)
(* sequences, tabs, scrolling, and what all of it leaves on the screen.    *)
(*                                                                         *)
(* A pixel position is kept in character cells, 1 being the left or top    *)
(* cell of the text area: pixel_x = text_area_x + (px - 1) * char_width.   *)
(* show_cursor is FALSE throughout: nothing in the kernel turns it on.     *)
(***************************************************************************)
EXTENDS Integers, Sequences, FiniteSets, SequencesExt

CONSTANTS NumRows, NumCols,     \* num_rows, num_cols of the console
          TabSize,              \* tab_size
          EscapeSize,           \* the length of captured_escape
          FieldSize,            \* the length of set_1, set_2 and set_3
          Strings,              \* what programs print in one call
          Keys,                 \* characters the shell's user types
          LongInput,            \* lines and escapes may exceed their buffers
          Erases,               \* the user may erase
          MaxPuts               \* bound: calls that write to the console

UInt16 == 65536

ASSUME SizeAssumption ==
    /\ NumRows \in Nat \ {0} /\ NumCols \in 1 .. UInt16 - 2 /\ TabSize \in Nat \ {0}
    /\ EscapeSize \in Nat \ {0} /\ FieldSize \in Nat \ {0} /\ MaxPuts \in Nat
    /\ LongInput \in BOOLEAN /\ Erases \in BOOLEAN

ESC == "esc"
TAB == "tab"
NL == "nl"
BS == "bs"
SPACE == " "
NUL == "nul"       \* a cell of buff no character was put in
None == "none"     \* a colour that is not overridden

\* The digits of a colour code count as one character.  Foreground holds the
\* codes 30-37 and 90-97, Background 40-47, and BrightBackground 100-107.
Foreground == {"93"}
Background == {"41"}
BrightBackground == {"101"}

VARIABLES
    con,       \* the vui_console
    screen,    \* what the text area shows
    stray,     \* something was written or drawn outside its buffer
    typed,     \* line_index of the shell reading a line
    puts       \* calls made so far

convars == <<con, screen, stray, typed, puts>>

Chars == (UNION {Range(s) : s \in Strings}) \cup Keys \cup {SPACE}
Colours == {None} \cup Foreground \cup Background \cup BrightBackground
Cell == [ch : Chars \cup {NUL}, fg : Colours, bg : Colours]
Blank == [ch |-> SPACE, fg |-> None, bg |-> None]
EmptyCell == [ch |-> NUL, fg |-> None, bg |-> None]
EmptyRow == [c \in 1..NumCols |-> EmptyCell]

\* The whole of what one call changes: the console, the screen, stray.
View == [con |-> con, screen |-> screen, stray |-> stray]
State(v) == con' = v.con /\ screen' = v.screen /\ stray' = v.stray

vui_console_create ==
    [rows |-> [r \in 1..NumRows |-> EmptyRow],
     dirty |-> [r \in 1..NumRows |-> FALSE],
     current_row |-> 1, current_col |-> 1, px |-> 1, py |-> 1,
     capturing |-> FALSE, captured |-> <<>>,
     override_fg |-> None, override_bg |-> None]

\* How a cell of the buffer looks when it is drawn.
Shown(cell) == IF cell.ch = NUL THEN [cell EXCEPT !.ch = SPACE] ELSE cell

\* Draws every dirty row from the buffer.
vui_console_draw_from_struct(v) ==
    [v EXCEPT !.screen = [r \in 1..NumRows |->
                  IF v.con.dirty[r] THEN [c \in 1..NumCols |-> Shown(v.con.rows[r][c])]
                  ELSE v.screen[r]],
              !.con.dirty = [r \in 1..NumRows |-> FALSE]]

\* Draws one character at the pixel position of the cursor.
vui_draw_char(v, cell) ==
    IF v.con.px \in 1..NumCols /\ v.con.py \in 1..NumRows
    THEN [v EXCEPT !.screen[v.con.py][v.con.px] = cell]
    ELSE [v EXCEPT !.stray = TRUE]

\* The rows after the first one has gone out at the top.
Upwards(grid, last) == [r \in 1..NumRows |-> IF r < NumRows THEN grid[r + 1] ELSE last]
BlankRow == [c \in 1..NumCols |-> Blank]

\* The last row is all that stays dirty when the rows move.
RowsUp(k) == [k EXCEPT !.rows = Upwards(@, EmptyRow),
                       !.dirty = [r \in 1..NumRows |-> r = NumRows /\ @[r]]]

\* Both cursors go to the start of the last row.
ToLastRow(k) == [k EXCEPT !.px = 1, !.py = NumRows,
                          !.current_col = 1, !.current_row = NumRows]

\* Wrong on purpose: the buffer stays where it was.
vui_console_scroll_up_PixelsOnly(v) ==
    [v EXCEPT !.con = ToLastRow(v.con), !.screen = Upwards(v.screen, BlankRow)]

\* Wrong on purpose: the rows that moved are drawn where they were.
vui_console_scroll_up_NoMove(v) ==
    vui_console_draw_from_struct([v EXCEPT !.con = ToLastRow(RowsUp(v.con))])

\* The rows move up by memcpy and the pixels by vui_move_rect, each on its own;
\* the last row is blanked in both and, when dirty, drawn once more.
vui_console_scroll_up(v) ==
    vui_console_draw_from_struct([v EXCEPT !.con = ToLastRow(RowsUp(v.con)),
                                           !.screen = Upwards(v.screen, BlankRow)])

\* Wrong on purpose: the pixel column is not reset.
vui_console_do_new_line_KeepsPixel(v) ==
    IF v.con.current_row = NumRows
    THEN [vui_console_scroll_up(v) EXCEPT !.con.px = v.con.px]
    ELSE [v EXCEPT !.con.current_col = 1, !.con.current_row = @ + 1, !.con.py = @ + 1]

vui_console_do_new_line(v) ==
    LET w == [v EXCEPT !.con.current_col = 1]
        x == IF w.con.current_row = NumRows THEN vui_console_scroll_up(w)
             ELSE [w EXCEPT !.con.current_row = @ + 1, !.con.py = @ + 1]
    IN  [x EXCEPT !.con.px = 1]

\* The columns are uint16_t; the buffer keeps the character that disappears
\* from the screen.
vui_console_do_backspace(v) ==
    vui_draw_char([v EXCEPT !.con.current_col = (@ - 1) % UInt16,
                            !.con.px = (@ - 1) % UInt16], Blank)

\* The n-th field of an escape sequence: the fields follow '[', of which a
\* sequence has one, and are separated by ';'.
Field(captured, n) ==
    LET set_number(i) == Cardinality({j \in 1..i : captured[j] \in {"[", ";"}})
    IN  SelectSeq([i \in 1..Len(captured) |->
                      IF set_number(i) = n THEN captured[i] ELSE ";"],
                  LAMBDA c : c \notin {"[", ";"})

\* Collects the sequence; at 'm' the second field gives the foreground and the
\* third the background.  The codes of the bright backgrounds set the
\* foreground, and an unknown code removes the override.
vui_console_process_escape(v, c) ==
    LET captured == v.con.captured
        at(n) == Field(captured, n)
        bg == IF Len(at(3)) = 1 THEN Head(at(3)) ELSE NUL
        fg == IF bg \in BrightBackground THEN bg
              ELSE IF Len(at(2)) = 1 THEN Head(at(2)) ELSE NUL
    IN  IF c = "m"
        THEN [v EXCEPT
               !.con.capturing = FALSE, !.con.captured = <<>>,
               !.con.override_fg = IF fg \in Foreground \cup BrightBackground THEN fg ELSE None,
               !.con.override_bg = IF bg \in Background THEN bg ELSE None,
               !.stray = @ \/ Len(captured) >= EscapeSize
                           \/ \E n \in 1..3 : Len(at(n)) > FieldSize]
        ELSE [v EXCEPT !.con.captured = Append(@, c),
                       !.stray = @ \/ Len(captured) >= EscapeSize]

\* The character goes to the buffer, and the cursor on.
Stored(v, row, col, cell) ==
    IF col \in 1..NumCols
    THEN [v EXCEPT !.con.rows[row][col] = cell, !.con.dirty[row] = TRUE]
    ELSE [v EXCEPT !.con.dirty[row] = TRUE, !.stray = TRUE]

Advanced(v) == [v EXCEPT !.con.current_col = (@ + 1) % UInt16, !.con.px = (@ + 1) % UInt16]

\* The default branch of vui_console_put_char_at, for the row and the column
\* vui_console_put_char passed: they are the ones from before the line wraps.
PutPlain(v, c) ==
    LET row == v.con.current_row
        col == v.con.current_col
        w == IF col = NumCols + 1 THEN vui_console_do_new_line(v) ELSE v
        cell == [ch |-> c, fg |-> v.con.override_fg, bg |-> v.con.override_bg]
    IN  Advanced(vui_draw_char(Stored(w, row, col, cell), cell))

PutDefault(v, c) ==
    IF v.con.capturing THEN vui_console_process_escape(v, c) ELSE PutPlain(v, c)

PutSpaces(v, n) ==
    LET after[i \in 0..n] == IF i = 0 THEN v ELSE PutDefault(after[i - 1], SPACE)
    IN  after[n]

\* Wrong on purpose: a tab is done whether or not there is room.
vui_console_do_tab_NoRoom(v) == PutSpaces(v, TabSize)

\* Only when there is room: a whole tab at the start of the line, else as many
\* spaces as the column is past the last tab stop.
vui_console_do_tab(v) ==
    LET past == (v.con.current_col - 1) % TabSize
        spaces == IF past = 0 THEN TabSize ELSE past
    IN  IF v.con.current_col + TabSize < NumCols
        THEN PutSpaces(v, spaces)
        ELSE v

vui_console_put_char(v, c) ==
    CASE c = ESC -> [v EXCEPT !.con.capturing = TRUE, !.con.captured = <<>>]
      [] c = TAB -> vui_console_do_tab(v)
      [] c = NL  -> vui_console_do_new_line(v)
      [] c = BS  -> vui_console_do_backspace(v)
      [] OTHER   -> PutDefault(v, c)

vui_console_put_string(v, s) ==
    LET after[i \in 0..Len(s)] == IF i = 0 THEN v ELSE vui_console_put_char(after[i - 1], s[i])
    IN  after[Len(s)]

\* Unless LongInput, no writer's text runs over the right edge: it ends the
\* line first.
Fits(s) == \/ LongInput
           \/ Head(s) \in {ESC, TAB, NL, BS}
           \/ con.current_col + Len(s) <= NumCols + 1

InitConsole ==
    /\ con = vui_console_create
    /\ screen = [r \in 1..NumRows |-> [c \in 1..NumCols |-> Blank]]
    /\ stray = FALSE
    /\ typed = 0
    /\ puts = 0

Put(s) == /\ puts < MaxPuts
          /\ puts' = puts + 1
          /\ Fits(s)
          /\ State(vui_console_put_string(View, s))

\* A program prints; the shell is not reading a line meanwhile.
Output(s) == typed = 0 /\ Put(s) /\ UNCHANGED typed

\* The shell echoes a key, an erased key and the end of the line.
Echo(c) == Put(<<c>>) /\ typed' = typed + 1
Erase == Erases /\ typed > 0 /\ Put(<<BS>>) /\ typed' = typed - 1
Enter == typed > 0 /\ Put(<<NL>>) /\ typed' = 0

NextConsole ==
    \/ \E s \in Strings : Output(s)
    \/ \E c \in Keys : Echo(c)
    \/ Erase
    \/ Enter

SpecConsole == InitConsole /\ [][NextConsole]_convars

-----------------------------------------------------------------------------
\* The console is well formed: the row of the cursor is one of the console's,
\* the column at most one past the last, and the buffers hold cells.
Grid == [1..NumRows -> [1..NumCols -> Cell]]
Consoles ==
    [rows : Grid, dirty : [1..NumRows -> BOOLEAN],
     current_row : 1..NumRows, current_col : 1..(NumCols + 1), px : 1..(NumCols + 1), py : 1..NumRows,
     capturing : BOOLEAN, captured : Seq(Chars),
     override_fg : Colours \ Background, override_bg : {None} \cup Background]

TypeOKConsole ==
    /\ con \in Consoles /\ screen \in Grid
    /\ stray \in BOOLEAN /\ typed \in Nat /\ puts \in 0..MaxPuts

\* The two cursors agree: current_row and current_col, which say where a
\* character is stored, and current_pixel_x and current_pixel_y, which say
\* where it is drawn, are moved by separate assignments in put_char,
\* new_line, backspace and scroll_up.
CursorsAgree == TypeOKConsole /\ con.px = con.current_col /\ con.py = con.current_row

\* The buffer can redraw the screen: whatever a cell shows is what the buffer
\* holds for it, or the cell was erased.  scroll_up moves the one with memcpy
\* and the other with vui_move_rect.
BufferHoldsScreen ==
    \A r \in 1..NumRows, c \in 1..NumCols :
        screen[r][c] \in {Blank, Shown(con.rows[r][c])}

\* No character is stored outside its row or drawn outside the text area as
\* long as writers end their lines in time: tabs, the one thing whose width
\* the console chooses, never carry the cursor past the edge.
WritesStayInside == ~stray

-----------------------------------------------------------------------------
(***************************************************************************)
(* The inductive invariant, when what is printed in one call is text, a    *)
(* tab, the end of a line or a whole colour sequence that fits into        *)
(* captured_escape and its fields.                                         *)
(***************************************************************************)
Plain == Chars \ {ESC, TAB, NL, BS, NUL}

IsText(s) == s # <<>> /\ s \in Seq(Plain)

IsColour(s) ==
    /\ s \in Seq(Chars) /\ Len(s) \in 2..EscapeSize + 1
    /\ s[1] = ESC /\ s[Len(s)] = "m"
    /\ \A i \in 2..Len(s) - 1 : s[i] \in Plain \ {"m"}
    /\ \A n \in 1..3 : Len(Field(SubSeq(s, 2, Len(s) - 1), n)) <= FieldSize

WholeStrings ==
    /\ \A s \in Strings : IsText(s) \/ IsColour(s) \/ s \in {<<TAB>>, <<NL>>}
    /\ Keys \subseteq Plain

\* Writers keep to the buffers of the console.
ShortStrings == ~ LongInput /\ WholeStrings

\* Text goes out a character per call, as stdout_write and the shell print it.
OneAtATime == \A s \in Strings : IsText(s) => Len(s) = 1

\* Between two calls no sequence is open, and what the user has typed is on the
\* line of the cursor, so that erasing it stays there.
ConsoleInv ==
    /\ CursorsAgree /\ BufferHoldsScreen /\ WritesStayInside
    /\ ~con.capturing /\ typed < con.current_col

-----------------------------------------------------------------------------
\* What is on the screen is what a terminal would show.
Visible == ({Head(s) : s \in Strings} \ {ESC, TAB, NL, BS}) \cup Keys \cup {SPACE}
AsTerminal == INSTANCE Terminal WITH
    row <- con.py, col <- con.px,
    Cells <- [ch : Visible, fg : Colours \ Background, bg : {None} \cup Background]

\* vui_console_put_char and everything it calls implement the terminal: each
\* call changes the screen and the pixel cursor by one terminal step or not
\* at all.
ImplementsTerminal == AsTerminal!Spec
=============================================================================
