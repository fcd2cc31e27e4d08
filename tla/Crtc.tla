-------------------------------- MODULE Crtc --------------------------------
(***************************************************************************)
(* The CRT controller, which decides what page of VGA memory is shown and  *)
(* where the cursor is, and its three users: tasks that write to a         *)
(* terminal, tasks that print on the early console, and the bottom half    *)
(* of the keyboard's interrupt.                                            *)
(*                                                                         *)
(* A register has two bytes behind an index port and a data port, so that  *)
(* setting it takes four port writes.  A task can be interrupted or        *)
(* preempted between any two of them; a bottom half runs to its end.       *)
(***************************************************************************)
EXTENDS Integers, Sequences

CONSTANTS
    Tasks,
    NumDisplays,        \* N_VGA_BUFFERS
    UsedRows, UsedCols  \* the positions the cursor is moved to

\* The start of a page fits the register of 16 bits.
ASSUME DisplaysAssumption == NumDisplays \in 1..32
ASSUME PositionsAssumption == UsedRows \subseteq 0..24 /\ UsedCols \subseteq 0..80

VARIABLES
    index,     \* the index port: the byte the next data goes to
    regs,      \* the bytes of the two registers
    current,   \* current_dev
    outbs,     \* task -> the port writes it has still to make
    asked      \* (history) the cursor locations that were ever asked for

vars == <<index, regs, current, outbs, asked>>

Displays == 0..NumDisplays - 1
CRTC_IDX_START_ADDRESS == 12
CRTC_IDX_CURSOR_LOC == 14

TEXT_MODE_COLS == 80
TEXT_MODE_ROWS == 25
TEXT_BUFF_IDX(r, c) == TEXT_MODE_COLS * r + c
buffer_start(d) == d * TEXT_MODE_COLS * TEXT_MODE_ROWS

Hi(value) == (value \div 256) % 256
Lo(value) == value % 256
Register(i) == regs[i] * 256 + regs[i + 1]

-----------------------------------------------------------------------------
(* vga_text_display.c and update_cursor(), as sequences of port writes     *)

ToIndex(i) == [port |-> "index", value |-> i]
ToData(v) == [port |-> "data", value |-> v]

write_crtc_reg(i, value) ==
    << ToIndex(i), ToData(Hi(value)), ToIndex(i + 1), ToData(Lo(value)) >>

vga_text_display_buffer(d) ==
    write_crtc_reg(CRTC_IDX_START_ADDRESS, buffer_start(d))

vga_text_set_cursor(d, r, c) ==
    write_crtc_reg(CRTC_IDX_CURSOR_LOC, TEXT_BUFF_IDX(r, c) + buffer_start(d))

\* update_cursor() of the early console: the low byte first, on page 0.
update_cursor(r, c) ==
    << ToIndex(15), ToData(Lo(TEXT_BUFF_IDX(r, c))),
       ToIndex(14), ToData(Hi(TEXT_BUFF_IDX(r, c))) >>

\* What one port write does to the controller, and the four of a register.
Outb(crtc, o) ==
    IF o.port = "index" THEN [crtc EXCEPT !.index = o.value]
    ELSE [crtc EXCEPT !.regs[crtc.index] = o.value]

Write4(crtc, os) == Outb(Outb(Outb(Outb(crtc, os[1]), os[2]), os[3]), os[4])

controller == [index |-> index, regs |-> regs]

Becomes(crtc) == index' = crtc.index /\ regs' = crtc.regs

-----------------------------------------------------------------------------
\* Each display was cleared, which moved the cursor to it, and the first terminal
\* was switched to, in the order in which the drivers came up.
Init ==
    /\ index = 15
    /\ current = 0
    /\ \E d \in Displays :
          /\ regs = [i \in 12..15 |-> CASE i = 14 -> Hi(buffer_start(d))
                                       [] i = 15 -> Lo(buffer_start(d))
                                       [] OTHER  -> 0]
          /\ asked = {buffer_start(d)}
    /\ outbs = [t \in Tasks |-> <<>>]

\* A task has written to the display of any terminal, and sets the cursor:
\* the ends of text_mode_putc(), text_mode_write() and text_mode_del().
WriteDisplay(t, d, r, c) ==
    /\ outbs[t] = <<>>
    /\ outbs' = [outbs EXCEPT ![t] = vga_text_set_cursor(d, r, c)]
    /\ asked' = asked \union {TEXT_BUFF_IDX(r, c) + buffer_start(d)}
    /\ UNCHANGED <<index, regs, current>>

\* term_put() for kprintf().
WriteConsole(t, r, c) ==
    /\ outbs[t] = <<>>
    /\ outbs' = [outbs EXCEPT ![t] = update_cursor(r, c)]
    /\ asked' = asked \union {TEXT_BUFF_IDX(r, c)}
    /\ UNCHANGED <<index, regs, current>>

\* The next port write of a task.
PortWrite(t) ==
    /\ outbs[t] # <<>>
    /\ Becomes(Outb(controller, Head(outbs[t])))
    /\ outbs' = [outbs EXCEPT ![t] = Tail(@)]
    /\ UNCHANGED <<current, asked>>

\* The bottom half echoes or deletes a character on the current terminal.
EchoKey(r, c) ==
    /\ Becomes(Write4(controller, vga_text_set_cursor(current, r, c)))
    /\ asked' = asked \union {TEXT_BUFF_IDX(r, c) + buffer_start(current)}
    /\ UNCHANGED <<current, outbs>>

SwitchCursorFirst(d, r, c) ==
    Write4(Write4(controller, vga_text_set_cursor(d, r, c)), vga_text_display_buffer(d))

Switched(d, r, c) ==
    Write4(Write4(controller, vga_text_display_buffer(d)), vga_text_set_cursor(d, r, c))

\* text_mode_set_active_display() from tty_switch(), in the bottom half.
text_mode_set_active_display(d, r, c) ==
    /\ current # d
    /\ Becomes(Switched(d, r, c))
    /\ current' = d
    /\ asked' = asked \union {TEXT_BUFF_IDX(r, c) + buffer_start(d)}
    /\ UNCHANGED outbs

Next ==
    \/ \E t \in Tasks : PortWrite(t)
    \/ \E r \in UsedRows, c \in UsedCols :
           \/ \E t \in Tasks, d \in Displays : WriteDisplay(t, d, r, c)
           \/ \E t \in Tasks : WriteConsole(t, r, c)
           \/ EchoKey(r, c)
           \/ \E d \in Displays : text_mode_set_active_display(d, r, c)

Spec == Init /\ [][Next]_vars

-----------------------------------------------------------------------------
\* The screen shows the terminal that was switched to last, also when the
\* switch fell between two port writes of a task: the data that the task then
\* writes goes to a byte of the cursor, because the switch ends with the
\* cursor (text_mode_display.h:45, "Display the specific buffer associated with
\* the device"; text_mode_display.c:111-112).
CurrentIsShown == Register(CRTC_IDX_START_ADDRESS) = buffer_start(current)

\* When no task is between two port writes, the cursor is at a location that
\* somebody asked for (text_mode_display.h:48, "Adjust the cursor position fo
\* the buffer associated with the device").
CursorWhole ==
    (\A t \in Tasks : outbs[t] = <<>>) => Register(CRTC_IDX_CURSOR_LOC) \in asked
=============================================================================
