--------------------------- MODULE LineDiscipline ---------------------------
(***************************************************************************)
(* What a terminal in canonical mode promises its reader: characters are   *)
(* collected in a line that can be edited until Enter commits it, and      *)
(* committed characters are consumed in the order they were typed.         *)
(***************************************************************************)
EXTENDS Naturals, Sequences

CONSTANTS Chars, Newline, Capacity

VARIABLES committed, line

Room == Len(committed) + Len(line) < Capacity

LineInit == committed = <<>> /\ line = <<>>

Type(c) == /\ Room
           /\ line' = Append(line, c)
           /\ UNCHANGED committed

Erase == /\ line # <<>>
         /\ line' = SubSeq(line, 1, Len(line) - 1)
         /\ UNCHANGED committed

\* Without room for it, the newline is dropped; the line is committed anyway.
Enter == /\ committed' = committed \o (IF Room THEN Append(line, Newline) ELSE line)
         /\ line' = <<>>

Consume == /\ committed # <<>>
           /\ committed' = Tail(committed)
           /\ UNCHANGED line

LineNext == (\E c \in Chars : Type(c)) \/ Erase \/ Enter \/ Consume

LineSpec == LineInit /\ [][LineNext]_<<committed, line>>
=============================================================================
