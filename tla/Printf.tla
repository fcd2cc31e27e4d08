------------------------------- MODULE Printf -------------------------------
(***************************************************************************)
(* Formatted output into a buffer: __fwriter() of utils/__fwriter.c and    *)
(* vsnprintf() of utils/libc.c, as operators.                              *)
(*                                                                         *)
(* A format with its arguments is a sequence of pieces, one for each turn  *)
(* of __fwriter()'s loop.  A piece is [kind |-> "text", text |-> seq] for  *)
(* literal text, %c, %s and an unknown conversion, which all print given   *)
(* characters, or [kind |-> c, value |-> n] for the conversions %u, %x, %o *)
(* and %i.  Digits and letters are numbers; Minus is the minus sign and    *)
(* Nul the terminator.                                                     *)
(***************************************************************************)
EXTENDS Integers, Sequences, SequencesExt

Minus == 99
Nul == 0
NumStrLen == 33   \* sizeof(numstr)

divisor(radix) == CASE radix = "x" -> 16 [] radix = "o" -> 8 [] OTHER -> 10

\* The first loop of itoa(): the digits of tmp, the last one first, as far as
\* there is room.
DigitsBackwards(n, d, len) ==
    LET tmp[i \in 0..len] == IF i = 0 THEN n ELSE tmp[i - 1] \div d
        count == CHOOSE i \in 0..len - 1 :
                    /\ tmp[i] = 0 \/ i = len - 1
                    /\ \A j \in 0..i - 1 : tmp[j] > 0
    IN  [i \in 1..count |-> tmp[i - 1] % d]

\* itoa(): zero is a special case; the digits are reversed in place.
itoa(n, len, radix) ==
    IF n = 0 /\ len > 1 THEN <<0>>
    ELSE LET b == DigitsBackwards(n, divisor(radix), len)
             i == Len(b)
         IN  [j \in 1..i |-> b[i - j + 1]]

signed_itoa(num, len) ==
    IF num < 0 THEN <<Minus>> \o itoa(-num, len - 1, "u") ELSE itoa(num, len, "u")

Expansion(p) ==
    CASE p.kind = "text" -> p.text
      [] p.kind = "i" -> signed_itoa(p.value, NumStrLen)
      [] OTHER -> itoa(p.value, NumStrLen, p.kind)

RoomForAll(length, written, bufsz) ==
    length + written =< bufsz

\* print_buff(): room for the characters and the terminator.
HasRoom(length, written, bufsz) ==
    length + written < bufsz

\* __fwriter() into a buffer: the pieces up to the first that does not fit.
__fwriter(pieces, bufsz) ==
    FoldLeft(LAMBDA s, p :
                 LET t == Expansion(p)
                 IN  IF ~s.ok THEN s
                     ELSE IF ~HasRoom(Len(t), Len(s.out), bufsz)
                     THEN [s EXCEPT !.ok = FALSE]
                     ELSE [s EXCEPT !.out = @ \o t],
             [ok |-> TRUE, out |-> <<>>], pieces)

\* vsnprintf(): the value returned and the characters stored; a terminator
\* follows when the value is positive.
vsnprintf(pieces, bufsz) ==
    LET w == __fwriter(pieces, bufsz)
    IN  [ret |-> IF w.ok THEN Len(w.out) ELSE -1,
         stored |-> IF w.ok /\ w.out # <<>> THEN Append(w.out, Nul) ELSE w.out]
=============================================================================
