---------------------------- MODULE PrintfCalls ----------------------------
(***************************************************************************)
(* Every call of snprintf() with a format of one or two pieces and every  *)
(* buffer size up to a bound, against what the pieces stand for.           *)
(***************************************************************************)
EXTENDS Printf, FiniteSets

CONSTANTS TextLens, Values, MaxSize, Measuring

VARIABLES call, result
vars == <<call, result>>

Pieces ==
    {[kind |-> "text", text |-> [i \in 1..n |-> 20 + i]] : n \in TextLens}
    \union {[kind |-> k, value |-> v] : k \in {"u", "x", "o"}, v \in Values}
    \union {[kind |-> "i", value |-> v] : v \in Values \union {-w : w \in Values}}

Calls == [pieces : SeqOf(Pieces, 2) \ {<<>>},
          bufsz : IF Measuring THEN {0} ELSE 1..MaxSize]

NotCalled == [ret |-> -2, stored |-> <<>>]

Init ==
    /\ call = [pieces |-> <<>>, bufsz |-> 0]
    /\ result = NotCalled

\* Nothing is kept from one call to the next, so one call is enough.
snprintf ==
    /\ result = NotCalled
    /\ call' \in Calls
    /\ result' = vsnprintf(call'.pieces, call'.bufsz)

Next == snprintf
Spec == Init /\ [][Next]_vars

\* The number a sequence of digits stands for.
Value(digits, base) == FoldLeft(LAMBDA a, d : a * base + d, 0, digits)

\* t is the shortest numeral of n.
IsNumeral(t, n, base) ==
    /\ t # <<>>
    /\ \A k \in 1..Len(t) : t[k] \in 0..base - 1
    /\ Value(t, base) = n
    /\ t[1] = 0 => Len(t) = 1

\* Every conversion prints the numeral of its argument (__fwriter.c:14-65).
NumeralsRight ==
    result # NotCalled => \A k \in DOMAIN call.pieces :
        LET p == call.pieces[k]
            t == Expansion(p)
        IN  CASE p.kind = "text" -> TRUE
              [] p.kind = "i" /\ p.value < 0 ->
                     t[1] = Minus /\ IsNumeral(Tail(t), -p.value, 10)
              [] OTHER -> IsNumeral(t, p.value, divisor(p.kind))

Whole == FlattenSeq([k \in DOMAIN call.pieces |-> Expansion(call.pieces[k])])

\* A call succeeds exactly when the text and its terminator fit, stores the
\* text then, and never stores more than the buffer takes
\* (__fwriter.c:76-88, libc.c:166-180).
StoredFits ==
    result # NotCalled =>
        /\ Len(result.stored) =< call.bufsz
        /\ (result.ret >= 0) = (Len(Whole) < call.bufsz)
        /\ result.ret >= 0 => IsPrefix(Whole, result.stored) /\ result.ret = Len(Whole)

\* Without a buffer the call tells how many characters it needs
\* (__fwriter.c:84, "it only outputs the number chars required").
Measures == result # NotCalled => result.ret = Len(Whole)
=============================================================================
