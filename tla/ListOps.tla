------------------------------ MODULE ListOps ------------------------------
(***************************************************************************)
(* The operations of kernel/utils/list.c on the links of circular lists.   *)
(* Links is a record of two functions on the list entries, the heads       *)
(* included; each assignment of the code is one Set.                       *)
(***************************************************************************)

Links(S) == [next : [S -> S], prev : [S -> S]]

\* LIST_ENTRY_INIT: every entry is a circle of its own.
Single(S) == [next |-> [e \in S |-> e], prev |-> [e \in S |-> e]]

SetNext(l, e, f) == [l EXCEPT !.next = [@ EXCEPT ![e] = f]]
SetPrev(l, e, f) == [l EXCEPT !.prev = [@ EXCEPT ![e] = f]]

list_entry_remove(l, e) ==
    LET l1 == SetNext(l, l.prev[e], l.next[e])
        l2 == SetPrev(l1, l1.next[e], l1.prev[e])
    IN  SetNext(SetPrev(l2, e, e), e, e)

\* The link back from the end of the new circle is forgotten.
AppendOneWay(l, e, new) ==
    LET l1 == SetNext(l, l.prev[new], l.next[e])
    IN  SetPrev(SetNext(l1, e, new), new, e)

list_entry_append(l, e, new) ==
    LET l1 == SetPrev(l, l.next[e], l.prev[new])
        l2 == SetNext(l1, l1.prev[new], l1.next[e])
    IN  SetPrev(SetNext(l2, e, new), new, e)

list_entry_append_single_element(l, e, new) ==
    LET l1 == SetPrev(l, l.next[e], new)
        l2 == SetNext(l1, new, l1.next[e])
    IN  SetPrev(SetNext(l2, e, new), new, e)

LIST_EMPTY(l, head) == l.next[head] = head

list_add_first(l, head, e) == list_entry_append_single_element(l, head, e)

list_add_last(l, head, e) ==
    list_entry_append_single_element(l, l.prev[head], e)
=============================================================================
