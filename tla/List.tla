-------------------------------- MODULE List --------------------------------
(***************************************************************************)
(* A list of kernel/utils/list.c in use: entries are added, removed and    *)
(* spliced, and LIST_ITER_SAFE_REMOVAL walks the list with a body that may *)
(* remove the entry it is at.                                              *)
(***************************************************************************)
EXTENDS Naturals, Sequences, FiniteSets, ListOps

CONSTANTS Entries, Sentinel

ASSUME SentinelAssumption == IsFiniteSet(Entries) /\ Sentinel \notin Entries

Nodes == Entries \cup {Sentinel}

VARIABLES links,  \* the next and prev fields
          iter,   \* entry_ptr of the loop, NotIterating outside it
          ahead,  \* _next of the loop
          seen,   \* history: entries the loop's body was called with
          todo    \* history: entries the list held when the loop began

vars == <<links, iter, ahead, seen, todo>>

NotIterating == <<>>
Outside      == iter = NotIterating
idle         == <<iter, ahead, seen, todo>>

\* The circle of n, begun at n (at most as long as there are nodes).
Circle(l, n) ==
    LET at[i \in 0 .. Cardinality(Nodes)] == IF i = 0 THEN n ELSE l.next[at[i - 1]]
        ends == {i \in 1 .. Cardinality(Nodes) : at[i] = n}
        len  == IF ends = {} THEN Cardinality(Nodes)
                ELSE CHOOSE i \in ends : \A j \in ends : i <= j
    IN  [i \in 1 .. len |-> at[i - 1]]

Walk(n)  == Circle(links, n)
Alone(e) == links.next[e] = e

Init == /\ links = Single(Nodes)
        /\ iter = NotIterating
        /\ ahead = NotIterating
        /\ seen = <<>>
        /\ todo = <<>>

AddFirst(e) == /\ Outside
               /\ Alone(e)
               /\ links' = list_add_first(links, Sentinel, e)
               /\ UNCHANGED idle

AddLast(e) == /\ Outside
              /\ Alone(e)
              /\ links' = list_add_last(links, Sentinel, e)
              /\ UNCHANGED idle

list_remove_first == /\ Outside
                     /\ ~LIST_EMPTY(links, Sentinel)
                     /\ links' = list_entry_remove(links, links.next[Sentinel])
                     /\ UNCHANGED idle

list_remove_last == /\ Outside
                    /\ ~LIST_EMPTY(links, Sentinel)
                    /\ links' = list_entry_remove(links, links.prev[Sentinel])
                    /\ UNCHANGED idle

EntryRemove(e) == /\ Outside
                  /\ links' = list_entry_remove(links, e)
                  /\ UNCHANGED idle

\* An append within one circle, which divides it.
SpliceAnywhere(e, new) == /\ Outside
                          /\ links' = list_entry_append(links, e, new)
                          /\ UNCHANGED idle

\* new is the head of a circle that entry e is not part of.
Splice(e, new) == /\ Outside
                  /\ \A i \in DOMAIN Walk(e) : Walk(e)[i] # new
                  /\ links' = list_entry_append(links, e, new)
                  /\ UNCHANGED idle

IterStart == /\ Outside
             /\ ~LIST_EMPTY(links, Sentinel)
             /\ iter' = links.next[Sentinel]
             /\ ahead' = links.next[iter']
             /\ seen' = <<>>
             /\ todo' = Tail(Walk(Sentinel))
             /\ UNCHANGED links

\* The loop's body, which may remove the entry, and the loop's increment.
StepFrom(n, e, l) == /\ seen' = Append(seen, e)
                     /\ iter' = IF n = Sentinel THEN NotIterating ELSE n
                     /\ ahead' = IF n = Sentinel THEN NotIterating ELSE l.next[n]
                     /\ links' = l
                     /\ UNCHANGED todo

\* The increment of LIST_ITER: the next entry is read after the body.
IterStepUnsafe == /\ ~Outside
                  /\ \E l \in {links, list_entry_remove(links, iter)} :
                        StepFrom(l.next[iter], iter, l)

IterStep == /\ ~Outside
            /\ \E l \in {links, list_entry_remove(links, iter)} :
                  StepFrom(ahead, iter, l)

Next == \/ \E e \in Entries : AddFirst(e) \/ AddLast(e) \/ EntryRemove(e)
        \/ \E e, f \in Nodes : Splice(e, f)
        \/ list_remove_first
        \/ list_remove_last
        \/ IterStart
        \/ IterStep

Spec == Init /\ [][Next]_vars
FairSpec == Spec /\ WF_vars(IterStep)

-----------------------------------------------------------------------------
\* The links of every entry agree in both directions, in lists and in loose
\* circles alike, whatever the order of the operations (what verify_list()
\* of the tests looks for, and what list_entry_remove() relies on).
LinksAgree ==
    \A e \in Nodes : links.prev[links.next[e]] = e /\ links.next[links.prev[e]] = e

\* A loop with LIST_ITER_SAFE_REMOVAL has seen, in order, exactly the entries
\* before the one it is at; the rest is still in the list, also when the
\* body removes entries.
IterationExact ==
    ~Outside => \E i \in DOMAIN Walk(Sentinel) : 
                    /\ Walk(Sentinel)[i] = iter
                    /\ todo = seen \o SubSeq(Walk(Sentinel), i, Len(Walk(Sentinel)))

\* The operations of list.c are those of rings of entries: nothing is lost,
\* duplicated or reordered.
Abstract == INSTANCE Rings WITH ring <- [n \in Nodes |-> Walk(n)]
IsRings == Abstract!RingSpec

\* Such a loop ends, and it has seen every entry when it does.
IterationEnds == ~Outside ~> (Outside /\ seen = todo)
=============================================================================
