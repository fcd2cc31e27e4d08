------------------------------ MODULE TextMode ------------------------------
(***************************************************************************)
(* The text mode displays of devices/display/text_mode_display.c on the    *)
(* pages of VGA memory that vga_text_display.c gives them.                 *)
(*                                                                         *)
(* A task writes to a display through text_mode_write() or                 *)
(* text_mode_putc(); write_char() is modelled statement by statement, so   *)
(* that writers of several displays interleave.  Each display must show a  *)
(* window on its own text (TextWindow).  The cursor of the screen is in    *)
(* module Crtc.                                                            *)
(***************************************************************************)
EXTENDS Integers, Sequences

CONSTANTS
    Rows, Cols,    \* TEXT_MODE_ROWS, TEXT_MODE_COLS; VGA_ROWS, VGA_COLS
    NumDisplays,   \* N_VGA_BUFFERS
    Chars, Blank

VARIABLES
    mem,        \* the cells of the VGA memory
    row, col,   \* display -> index_row, index_col
    job         \* display -> the statements of write_char() still to run

vars == <<mem, row, col, job>>

Displays == 0..NumDisplays - 1
Newline == "\n"
Page == Rows * Cols
buffer_start(d) == d * Page
TEXT_BUFF_IDX(d, r, c) == buffer_start(d) + Cols * r + c
Cells == 0..Page * NumDisplays - 1
OnPage(d, i) == i \div Page = d
RowOf(i) == (i % Page) \div Cols

\* create_vga_text_display() and init_text_mode_dev().
Init ==
    /\ mem = [i \in Cells |-> Blank]
    /\ row = [d \in Displays |-> 0]
    /\ col = [d \in Displays |-> 0]
    /\ job = [d \in Displays |-> <<>>]

-----------------------------------------------------------------------------
(* text_mode_display.c; s is the memory with the position of display d.    *)

StateOf(d) == [mem |-> mem, row |-> row[d], col |-> col[d]]

At(d, s) ==
    /\ mem' = s.mem
    /\ row' = [row EXCEPT ![d] = s.row]
    /\ col' = [col EXCEPT ![d] = s.col]

scrollKeepingLast(d, m) ==
    [i \in Cells |->
        IF OnPage(d, i) /\ RowOf(i) < Rows - 1 THEN m[i + Cols] ELSE m[i]]

\* scroll(): all rows move up, the last one is cleared.
scroll(d, m) ==
    [i \in Cells |->
        IF ~OnPage(d, i) THEN m[i]
        ELSE IF RowOf(i) < Rows - 1 THEN m[i + Cols] ELSE Blank]

\* The statements of write_char() for a character.
Store(d, s, ch) ==
    [s EXCEPT !.mem[TEXT_BUFF_IDX(d, s.row, s.col)] = ch]

NextCol(s) == [s EXCEPT !.col = @ + 1]

NextRow(s) == [s EXCEPT !.col = 0, !.row = @ + 1]

WrapRow(s) == IF s.col >= Cols THEN NextRow(s) ELSE s

ScrollIfBelow(d, s) ==
    IF s.row >= Rows
    THEN [mem |-> scroll(d, s.mem), row |-> Rows - 1, col |-> 0]
    ELSE s

\* The statements of write_char() in order, and what one of them does.
write_char(ch) ==
    (IF ch = Newline THEN <<"nextrow">> ELSE <<ch, "nextcol">>)
    \o <<"wrap", "scroll">>

Run(d, s, stmt) ==
    CASE stmt = "nextrow" -> NextRow(s)
      [] stmt = "nextcol" -> NextCol(s)
      [] stmt = "wrap"    -> WrapRow(s)
      [] stmt = "scroll"  -> ScrollIfBelow(d, s)
      [] OTHER            -> Store(d, s, stmt)

\* The state after the statements of p, of which there are at most four.
RunAll(d, s, p) ==
    LET after[n \in 0..Len(p)] == IF n = 0 THEN s ELSE Run(d, after[n - 1], p[n])
    IN  after[Len(p)]

\* The next character of text_mode_write() or text_mode_putc() on display d.
WriteChar(d, ch) ==
    /\ job[d] = <<>>
    /\ job' = [job EXCEPT ![d] = write_char(ch)]
    /\ UNCHANGED <<mem, row, col>>

Statement(d) ==
    /\ job[d] # <<>>
    /\ At(d, Run(d, StateOf(d), Head(job[d])))
    /\ job' = [job EXCEPT ![d] = Tail(@)]

\* text_mode_del(), one character.
text_mode_del(d) ==
    /\ job[d] = <<>>
    /\ col[d] >= 1
    /\ At(d, [mem |-> [mem EXCEPT ![TEXT_BUFF_IDX(d, row[d], col[d] - 1)] = Blank],
              row |-> row[d], col |-> col[d] - 1])
    /\ UNCHANGED job

\* The code only calls it when a display is created; here it comes at any time.
text_mode_clear(d) ==
    /\ job[d] = <<>>
    /\ At(d, [mem |-> [i \in Cells |-> IF OnPage(d, i) THEN Blank ELSE mem[i]],
              row |-> 0, col |-> 0])
    /\ UNCHANGED job

-----------------------------------------------------------------------------
Letters == Chars \union {Newline}

TaskStep(d) ==
    \/ \E ch \in Letters : WriteChar(d, ch)
    \/ Statement(d)
    \/ text_mode_del(d)
    \/ text_mode_clear(d)

Next == \E d \in Displays : TaskStep(d)

Spec == Init /\ [][Next]_vars

-----------------------------------------------------------------------------
\* What display d holds when the pending statements are done: the lines from
\* the top to the row it writes, and the column.
Done(d) == RunAll(d, StateOf(d), job[d])
LinesOf(d) ==
    [r \in 1..Done(d).row + 1 |->
        [c \in 1..Cols |-> Done(d).mem[TEXT_BUFF_IDX(d, r - 1, c - 1)]]]

Window(d) == INSTANCE TextWindow WITH lines <- LinesOf(d), col <- Done(d).col

\* Every display implements the window on its text, whatever the others write
\* in between its statements (text_mode_display.c:19-100,
\* vga_text_display.c:70-72).
ShowsItsText ==
    /\ \A d \in Displays : Window(d)!Init
    /\ [][\A d \in Displays :
              Window(d)!Next \/ UNCHANGED <<LinesOf(d), Done(d).col>>]_vars
=============================================================================
