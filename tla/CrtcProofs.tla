----------------------------- MODULE CrtcProofs -----------------------------
(***************************************************************************)
(* A proof that the screen always shows the current terminal, for any      *)
(* tasks, up to 32 displays and any cursor positions.                      *)
(*                                                                         *)
(* The register with the start address is not protected by a lock.  What   *)
(* protects it is that whenever a task can continue, the index port holds  *)
(* one of the two bytes of the cursor, and that tasks only ever ask for    *)
(* these two.                                                              *)
(***************************************************************************)
EXTENDS Crtc, TLAPS

CursorBytes == {14, 15}

\* The port writes that set the cursor.
CursorOutbs ==
    [port : {"index"}, value : CursorBytes] \union [port : {"data"}, value : 0..255]

\* A controller whose index is a byte of the cursor, and what it shows.
OnCursor(crtc) ==
    /\ crtc.index \in CursorBytes
    /\ crtc.regs \in [12..15 -> 0..255]
    /\ crtc = [index |-> crtc.index, regs |-> crtc.regs]

Shows(crtc, d) ==
    crtc.regs[12] = Hi(buffer_start(d)) /\ crtc.regs[13] = Lo(buffer_start(d))

\* The inductive invariant.
ScreenInvariant ==
    /\ OnCursor(controller)
    /\ Shows(controller, current)
    /\ current \in Displays
    /\ outbs \in [Tasks -> Seq(CursorOutbs)]

-----------------------------------------------------------------------------
\* The bytes of a value, and the start of a page as a register of 16 bits
\* (vga_text_display.c:41, 43 and 70).
LEMMA Bytes ==
    ASSUME NEW v \in Nat
    PROVE  Hi(v) \in 0..255 /\ Lo(v) \in 0..255
BY DEF Hi, Lo

\* The start of a display's page fits the two start address registers.
LEMMA PageStarts ==
    ASSUME NEW d \in Displays
    PROVE  /\ buffer_start(d) \in Nat
           /\ Hi(buffer_start(d)) * 256 + Lo(buffer_start(d)) = buffer_start(d)
<1>1. d \in Nat /\ d <= 31
  BY DisplaysAssumption DEF Displays
<1>2. PICK v \in Nat : v = buffer_start(d) /\ v <= 62000
  <2>1. d * 80 \in Nat /\ d * 80 <= 2480
    BY <1>1
  <2>2. PICK e \in Nat : e = d * 80 /\ e <= 2480
    BY <2>1
  <2>3. e * 25 \in Nat /\ e * 25 <= 62000
    BY <2>2
  <2> QED
    BY <2>2, <2>3 DEF buffer_start, TEXT_MODE_COLS, TEXT_MODE_ROWS
<1>3. PICK q \in Nat : q = v \div 256
  BY <1>2
<1>4. q <= 255 /\ q * 256 + (v % 256) = v
  BY <1>2, <1>3
<1>5. q % 256 = q
  BY <1>4
<1> QED
  BY <1>2, <1>3, <1>4, <1>5 DEF Hi, Lo

\* A cursor location is a number.
LEMMA Locations ==
    ASSUME NEW r \in UsedRows, NEW c \in UsedCols
    PROVE  /\ TEXT_BUFF_IDX(r, c) \in Nat
           /\ \A d \in Displays : TEXT_BUFF_IDX(r, c) + buffer_start(d) \in Nat
<1>1. r \in Nat /\ c \in Nat
  BY PositionsAssumption
<1>2. TEXT_BUFF_IDX(r, c) \in Nat
  BY <1>1 DEF TEXT_BUFF_IDX, TEXT_MODE_COLS
<1> QED
  BY <1>2, PageStarts

\* A write of the cursor's bytes keeps the index on them and the start address
\* as it is (vga_text_display.c:38-44).
LEMMA CursorOutb ==
    ASSUME NEW crtc, OnCursor(crtc), NEW o \in CursorOutbs
    PROVE  /\ OnCursor(Outb(crtc, o))
           /\ Outb(crtc, o).regs[12] = crtc.regs[12]
           /\ Outb(crtc, o).regs[13] = crtc.regs[13]
<1>1. CASE o.port = "index"
  BY <1>1 DEF OnCursor, Outb, CursorOutbs, CursorBytes
<1>2. CASE o.port = "data"
  BY <1>2 DEF OnCursor, Outb, CursorOutbs, CursorBytes
<1> QED
  BY <1>1, <1>2 DEF CursorOutbs

\* Both ways to set the cursor consist of such writes (vga_text_display.c:51-56,
\* arch/i686/tty.c:41-49).
LEMMA CursorWrites ==
    ASSUME NEW r \in UsedRows, NEW c \in UsedCols
    PROVE  /\ update_cursor(r, c) \in Seq(CursorOutbs)
           /\ \A d \in Displays :
                 /\ vga_text_set_cursor(d, r, c) \in Seq(CursorOutbs)
                 /\ \A i \in 1..4 : vga_text_set_cursor(d, r, c)[i] \in CursorOutbs
<1>1. ToIndex(14) \in CursorOutbs /\ ToIndex(15) \in CursorOutbs
  BY DEF ToIndex, CursorOutbs, CursorBytes
<1>2. ASSUME NEW v \in Nat
      PROVE  ToData(Hi(v)) \in CursorOutbs /\ ToData(Lo(v)) \in CursorOutbs
  BY Bytes DEF ToData, CursorOutbs
<1>3. update_cursor(r, c) \in Seq(CursorOutbs)
  BY <1>1, <1>2, Locations DEF update_cursor
<1>4. ASSUME NEW d \in Displays
      PROVE  /\ vga_text_set_cursor(d, r, c) \in Seq(CursorOutbs)
             /\ \A i \in 1..4 : vga_text_set_cursor(d, r, c)[i] \in CursorOutbs
  <2> DEFINE v == TEXT_BUFF_IDX(r, c) + buffer_start(d)
  <2>1. v \in Nat
    BY Locations
  <2>2. vga_text_set_cursor(d, r, c)
          = << ToIndex(14), ToData(Hi(v)), ToIndex(15), ToData(Lo(v)) >>
    BY DEF vga_text_set_cursor, write_crtc_reg, CRTC_IDX_CURSOR_LOC
  <2> HIDE DEF v
  <2> QED
    BY <1>1, <1>2, <2>1, <2>2
<1> QED
  BY <1>3, <1>4

\* Setting the cursor in one go, in a bottom half, whatever the index was.
LEMMA CursorSet ==
    ASSUME NEW crtc, crtc = [index |-> crtc.index, regs |-> crtc.regs],
           crtc.regs \in [12..15 -> 0..255],
           NEW d \in Displays, NEW r \in UsedRows, NEW c \in UsedCols
    PROVE  LET after == Write4(crtc, vga_text_set_cursor(d, r, c))
           IN  /\ OnCursor(after)
               /\ after.regs[12] = crtc.regs[12]
               /\ after.regs[13] = crtc.regs[13]
<1> DEFINE os == vga_text_set_cursor(d, r, c)
           c1 == Outb(crtc, os[1])
           c2 == Outb(c1, os[2])
           c3 == Outb(c2, os[3])
           c4 == Outb(c3, os[4])
<1>1. os[1] = ToIndex(14) /\ os[2] \in CursorOutbs /\ os[3] \in CursorOutbs
        /\ os[4] \in CursorOutbs
  BY CursorWrites DEF vga_text_set_cursor, write_crtc_reg, CRTC_IDX_CURSOR_LOC
<1> HIDE DEF os
<1>2. OnCursor(c1) /\ c1.regs[12] = crtc.regs[12] /\ c1.regs[13] = crtc.regs[13]
  BY <1>1 DEF OnCursor, Outb, ToIndex, CursorBytes
<1> HIDE DEF c1
<1>3. OnCursor(c2) /\ c2.regs[12] = c1.regs[12] /\ c2.regs[13] = c1.regs[13]
  BY <1>1, <1>2, CursorOutb
<1> HIDE DEF c2
<1>4. OnCursor(c3) /\ c3.regs[12] = c2.regs[12] /\ c3.regs[13] = c2.regs[13]
  BY <1>1, <1>3, CursorOutb
<1> HIDE DEF c3
<1>5. OnCursor(c4) /\ c4.regs[12] = c3.regs[12] /\ c4.regs[13] = c3.regs[13]
  BY <1>1, <1>4, CursorOutb
<1>6. Write4(crtc, os) = c4
  BY DEF Write4, c1, c2, c3
<1> QED
  BY <1>2, <1>3, <1>4, <1>5, <1>6 DEF os

\* Switching to display d in one go shows it (text_mode_display.c:110-112).
LEMMA SwitchShows ==
    ASSUME OnCursor(controller),
           NEW d \in Displays, NEW r \in UsedRows, NEW c \in UsedCols
    PROVE  OnCursor(Switched(d, r, c)) /\ Shows(Switched(d, r, c), d)
<1> DEFINE v == buffer_start(d)
           shown == Write4(controller, vga_text_display_buffer(d))
<1>1. v \in Nat /\ Hi(v) \in 0..255 /\ Lo(v) \in 0..255
  BY PageStarts, Bytes
<1>2. vga_text_display_buffer(d)
        = << ToIndex(12), ToData(Hi(v)), ToIndex(13), ToData(Lo(v)) >>
  BY DEF vga_text_display_buffer, write_crtc_reg, CRTC_IDX_START_ADDRESS
<1>3. shown = [index |-> 13, regs |-> [regs EXCEPT ![12] = Hi(v), ![13] = Lo(v)]]
  <2> HIDE DEF v
  <2>1. Outb(controller, ToIndex(12)) = [index |-> 12, regs |-> regs]
    BY DEF Outb, ToIndex, controller
  <2>2. Outb([index |-> 12, regs |-> regs], ToData(Hi(v)))
          = [index |-> 12, regs |-> [regs EXCEPT ![12] = Hi(v)]]
    BY DEF Outb, ToData
  <2> DEFINE r1 == [regs EXCEPT ![12] = Hi(v)]
  <2>3. Outb([index |-> 12, regs |-> r1], ToIndex(13)) = [index |-> 13, regs |-> r1]
    BY DEF Outb, ToIndex
  <2>4. Outb([index |-> 13, regs |-> r1], ToData(Lo(v)))
          = [index |-> 13, regs |-> [r1 EXCEPT ![13] = Lo(v)]]
    BY DEF Outb, ToData
  <2> QED
    BY <1>2, <2>1, <2>2, <2>3, <2>4 DEF Write4
<1>4. /\ shown = [index |-> shown.index, regs |-> shown.regs]
      /\ shown.regs \in [12..15 -> 0..255]
      /\ shown.regs[12] = Hi(v) /\ shown.regs[13] = Lo(v)
  <2>1. regs \in [12..15 -> 0..255]
    BY DEF OnCursor, controller
  <2> HIDE DEF v, shown
  <2> QED
    BY <1>1, <1>3, <2>1
<1> HIDE DEF shown
<1>5. LET after == Write4(shown, vga_text_set_cursor(d, r, c))
      IN  /\ OnCursor(after)
          /\ after.regs[12] = shown.regs[12]
          /\ after.regs[13] = shown.regs[13]
  BY <1>4, CursorSet
<1> QED
  BY <1>4, <1>5 DEF Switched, shown, Shows

-----------------------------------------------------------------------------
\* The registers and the cursor at boot (vga_text_display.c).
LEMMA ScreenInvariantInit == Init => ScreenInvariant
<1> SUFFICES ASSUME Init PROVE ScreenInvariant
  OBVIOUS
<1>1. current \in Displays /\ current = 0
  <2>1. current = 0
    BY DEF Init
  <2> QED
    BY <2>1, DisplaysAssumption DEF Displays
<1>2. Hi(buffer_start(0)) = 0 /\ Lo(buffer_start(0)) = 0
  BY DEF Hi, Lo, buffer_start, TEXT_MODE_COLS, TEXT_MODE_ROWS
<1>3. PICK d \in Displays :
        regs = [i \in 12..15 |-> CASE i = 14 -> Hi(buffer_start(d))
                                   [] i = 15 -> Lo(buffer_start(d))
                                   [] OTHER  -> 0]
  BY DEF Init
<1>4. Hi(buffer_start(d)) \in 0..255 /\ Lo(buffer_start(d)) \in 0..255
  BY PageStarts, Bytes
<1>5. regs \in [12..15 -> 0..255] /\ regs[12] = 0 /\ regs[13] = 0
  BY <1>3, <1>4
<1>6. outbs \in [Tasks -> Seq(CursorOutbs)]
  BY DEF Init
<1> QED
  BY <1>1, <1>2, <1>5, <1>6
  DEF Init, ScreenInvariant, OnCursor, Shows, controller, CursorBytes

\* Each write of a register by a task, in any interleaving, and each switch.
LEMMA ScreenInvariantNext == ScreenInvariant /\ [Next]_vars => ScreenInvariant'
<1> SUFFICES ASSUME ScreenInvariant, [Next]_vars PROVE ScreenInvariant'
  OBVIOUS
<1> USE DEF ScreenInvariant
<1>1. ASSUME NEW t \in Tasks, PortWrite(t) PROVE ScreenInvariant'
  <2>1. outbs[t] \in Seq(CursorOutbs) /\ outbs[t] # <<>>
    BY <1>1 DEF PortWrite
  <2>2. Head(outbs[t]) \in CursorOutbs /\ Tail(outbs[t]) \in Seq(CursorOutbs)
    BY <2>1
  <2> DEFINE after == Outb(controller, Head(outbs[t]))
  <2>3. OnCursor(after) /\ Shows(after, current)
    BY <2>2, CursorOutb DEF Shows
  <2> HIDE DEF after
  <2>4. controller' = [index |-> after.index, regs |-> after.regs]
    BY <1>1 DEF PortWrite, Becomes, controller, after
  <2>5. OnCursor(controller') /\ Shows(controller', current)
    BY <2>3, <2>4 DEF OnCursor
  <2> QED
    BY <1>1, <2>2, <2>5 DEF PortWrite, OnCursor, Shows
<1>2. ASSUME NEW r \in UsedRows, NEW c \in UsedCols,
             NEW t \in Tasks, NEW d \in Displays, WriteDisplay(t, d, r, c)
      PROVE  ScreenInvariant'
  <2>1. outbs' \in [Tasks -> Seq(CursorOutbs)]
    BY <1>2, CursorWrites DEF WriteDisplay
  <2> QED
    BY <1>2, <2>1 DEF WriteDisplay, OnCursor, Shows, controller
<1>3. ASSUME NEW r \in UsedRows, NEW c \in UsedCols,
             NEW t \in Tasks, WriteConsole(t, r, c)
      PROVE  ScreenInvariant'
  <2>1. outbs' \in [Tasks -> Seq(CursorOutbs)]
    BY <1>3, CursorWrites DEF WriteConsole
  <2> QED
    BY <1>3, <2>1 DEF WriteConsole, OnCursor, Shows, controller
<1>4. ASSUME NEW r \in UsedRows, NEW c \in UsedCols, EchoKey(r, c)
      PROVE  ScreenInvariant'
  <2> DEFINE after == Write4(controller, vga_text_set_cursor(current, r, c))
  <2>1. OnCursor(after) /\ Shows(after, current)
    <3>1. /\ controller = [index |-> controller.index, regs |-> controller.regs]
          /\ controller.regs \in [12..15 -> 0..255]
      BY DEF OnCursor
    <3>2. LET w == Write4(controller, vga_text_set_cursor(current, r, c))
          IN  /\ OnCursor(w)
              /\ w.regs[12] = controller.regs[12]
              /\ w.regs[13] = controller.regs[13]
      BY <3>1, CursorSet
    <3> QED
      BY <3>2 DEF Shows
  <2> HIDE DEF after
  <2>2. controller' = [index |-> after.index, regs |-> after.regs]
    BY <1>4 DEF EchoKey, Becomes, controller, after
  <2>3. OnCursor(controller') /\ Shows(controller', current)
    BY <2>1, <2>2 DEF OnCursor
  <2> QED
    BY <1>4, <2>3 DEF EchoKey, OnCursor, Shows
<1>5. ASSUME NEW r \in UsedRows, NEW c \in UsedCols, NEW d \in Displays,
             text_mode_set_active_display(d, r, c)
      PROVE  ScreenInvariant'
  <2>1. OnCursor(Switched(d, r, c)) /\ Shows(Switched(d, r, c), d)
    BY SwitchShows
  <2>2. controller' = [index |-> Switched(d, r, c).index,
                       regs |-> Switched(d, r, c).regs]
    BY <1>5 DEF text_mode_set_active_display, Becomes, controller
  <2>3. OnCursor(controller') /\ Shows(controller', d)
    BY <2>1, <2>2 DEF OnCursor
  <2> QED
    BY <1>5, <2>3 DEF text_mode_set_active_display, OnCursor, Shows
<1>6. CASE UNCHANGED vars
  BY <1>6 DEF vars, OnCursor, Shows, controller
<1> QED
  BY <1>1, <1>2, <1>3, <1>4, <1>5, <1>6 DEF Next

\* The screen shows the current terminal, however switches fall between the port
\* writes of tasks (text_mode_display.c:102-114, vga_text_display.c:38-56).
THEOREM ScreenFollowsSwitch == Spec => []CurrentIsShown
<1>1. ScreenInvariant => CurrentIsShown
  BY PageStarts
  DEF ScreenInvariant, Shows, controller, CurrentIsShown, Register,
      CRTC_IDX_START_ADDRESS
<1> QED
  BY <1>1, ScreenInvariantInit, ScreenInvariantNext, PTL DEF Spec
=============================================================================
