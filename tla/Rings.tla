------------------------------- MODULE Rings -------------------------------
(***************************************************************************)
(* What kernel/utils/list.c promises: the entries are divided into rings,  *)
(* read from any of their entries as a sequence that begins with it.       *)
(***************************************************************************)
EXTENDS Naturals, Sequences

CONSTANT Nodes

VARIABLE ring

In(n, s) == \E i \in DOMAIN s : s[i] = n
At(s, n) == CHOOSE i \in DOMAIN s : s[i] = n

From(s, n) == SubSeq(s, At(s, n), Len(s)) \o SubSeq(s, 1, At(s, n) - 1)
Without(s, n) ==
    IF In(n, s) THEN SubSeq(s, 1, At(s, n) - 1) \o SubSeq(s, At(s, n) + 1, Len(s)) ELSE s

InRing(n, m) == In(n, ring[m])

\* Entry e leaves its ring, which keeps its order.
Leave(e) ==
    ring' = [n \in Nodes |-> IF n = e THEN <<e>> ELSE Without(ring[n], e)]

\* The ring of f, begun at f, is put after e.
Join(e, f) ==
    /\ ~InRing(f, e)
    /\ LET all == <<e>> \o ring[f] \o Tail(ring[e])
       IN  ring' = [n \in Nodes |-> IF In(n, all) THEN From(all, n)
                                    ELSE ring[n]]

RingInit == ring = [n \in Nodes |-> <<n>>]

RingNext == \/ \E e \in Nodes : Leave(e)
            \/ \E e, f \in Nodes : Join(e, f)

RingSpec == RingInit /\ [][RingNext]_ring
=============================================================================
