----------------------------- MODULE TextWindow -----------------------------
(***************************************************************************)
(* What a text display promises: a window on the last lines of what was    *)
(* written.  Text is added at the end of the last line; a line that is     *)
(* full or ended is followed by an empty one, and the oldest line leaves   *)
(* the window when there are too many.                                     *)
(***************************************************************************)
EXTENDS Integers, Sequences

CONSTANTS Rows, Cols, Chars, Blank

VARIABLES lines, col

EmptyLine == [c \in 1..Cols |-> Blank]
Last == Len(lines)

\* The window after a line was appended to ls.
Scrolled(ls) == IF Len(ls) < Rows THEN Append(ls, EmptyLine)
                ELSE Append(Tail(ls), EmptyLine)

Init == lines = <<EmptyLine>> /\ col = 0

Newline ==
    lines' = Scrolled(lines) /\ col' = 0

Put(ch) ==
    LET written == [lines EXCEPT ![Last][col + 1] = ch]
    IN  IF col + 1 = Cols
        THEN lines' = Scrolled(written) /\ col' = 0
        ELSE lines' = written /\ col' = col + 1

\* The last character of the current line disappears.
Delete ==
    /\ col > 0
    /\ lines' = [lines EXCEPT ![Last][col] = Blank]
    /\ col' = col - 1

Clear ==
    lines' = <<EmptyLine>> /\ col' = 0

Next == Newline \/ (\E ch \in Chars : Put(ch)) \/ Delete \/ Clear

Spec == Init /\ [][Next]_<<lines, col>>
=============================================================================
