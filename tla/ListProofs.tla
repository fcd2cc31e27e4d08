----------------------------- MODULE ListProofs -----------------------------
(***************************************************************************)
(* The links of the lists agree in both directions after every sequence of *)
(* operations, for any set of entries.                                     *)
(***************************************************************************)
EXTENDS List, FiniteSetTheorems, TLAPS

Agree(l, S) == \A e \in S : l.prev[l.next[e]] = e /\ l.next[l.prev[e]] = e

\* LinksAgree is inductive once the loop of LIST_ITER_SAFE_REMOVAL is known to
\* stay on entries.
ListInv == /\ links \in Links(Nodes)
           /\ LinksAgree
           /\ ~Outside => iter \in Nodes /\ ahead \in Nodes

\* list_entry_remove() takes an entry out of its circle and closes both.
LEMMA RemoveAgrees ==
    ASSUME NEW S, NEW l \in Links(S), Agree(l, S), NEW e \in S
    PROVE  /\ list_entry_remove(l, e) \in Links(S)
           /\ Agree(list_entry_remove(l, e), S)
           /\ list_entry_remove(l, e).next =
                [[l.next EXCEPT ![l.prev[e]] = l.next[e]] EXCEPT ![e] = e]
<1> DEFINE l1 == SetNext(l, l.prev[e], l.next[e])
           l2 == SetPrev(l1, l1.next[e], l1.prev[e])
           l3 == SetPrev(l2, e, e)
           l4 == SetNext(l3, e, e)
<1>0. l.prev[e] \in S /\ l.next[e] \in S
  BY DEF Links
<1>1. l1 \in Links(S) /\ l1.prev = l.prev /\ l1.next = [l.next EXCEPT ![l.prev[e]] = l.next[e]]
  BY <1>0 DEF Links, SetNext, SetPrev
<1>2. l1.next[e] \in S /\ l1.prev[e] \in S
  BY <1>1 DEF Links
<1>3. /\ l2 \in Links(S) /\ l2.next = l1.next
      /\ l2.prev = [l1.prev EXCEPT ![l1.next[e]] = l1.prev[e]]
  BY <1>1, <1>2 DEF Links, SetNext, SetPrev
<1>4. l3 \in Links(S) /\ l3.next = l2.next /\ l3.prev = [l2.prev EXCEPT ![e] = e]
  BY <1>3 DEF Links, SetNext, SetPrev
<1>5. l4 \in Links(S) /\ l4.prev = l3.prev /\ l4.next = [l3.next EXCEPT ![e] = e]
  BY <1>4 DEF Links, SetNext, SetPrev
<1>6. l4 = list_entry_remove(l, e)
  BY DEF list_entry_remove
<1> HIDE DEF l1, l2, l3, l4
<1>7. Agree(l4, S)
  <2> SUFFICES ASSUME NEW x \in S
               PROVE  l4.prev[l4.next[x]] = x /\ l4.next[l4.prev[x]] = x
    BY DEF Agree
  <2>1. /\ l.next \in [S -> S] /\ l.prev \in [S -> S]
        /\ l4.next = [[l.next EXCEPT ![l.prev[e]] = l.next[e]] EXCEPT ![e] = e]
        /\ l4.prev = [[l.prev EXCEPT ![l1.next[e]] = l.prev[e]] EXCEPT ![e] = e]
    BY <1>1, <1>3, <1>4, <1>5 DEF Links
  <2>2. l1.next[e] = l.next[e]
    BY <1>0, <1>1, <2>1 DEF Agree
  <2>3. QED
    BY <2>1, <2>2, <1>0 DEF Agree
<1>8. l4.next = [[l.next EXCEPT ![l.prev[e]] = l.next[e]] EXCEPT ![e] = e]
  BY <1>1, <1>3, <1>4, <1>5
<1>9. QED
  BY <1>5, <1>6, <1>7, <1>8

\* list_entry_append() joins two circles (or divides one) consistently.
LEMMA AppendAgrees ==
    ASSUME NEW S, NEW l \in Links(S), Agree(l, S), NEW e \in S, NEW new \in S
    PROVE  /\ list_entry_append(l, e, new) \in Links(S)
           /\ Agree(list_entry_append(l, e, new), S)
           /\ list_entry_append(l, e, new).next =
                [[l.next EXCEPT ![l.prev[new]] = l.next[e]] EXCEPT ![e] = new]
<1> DEFINE l1 == SetPrev(l, l.next[e], l.prev[new])
           l2 == SetNext(l1, l1.prev[new], l1.next[e])
           l3 == SetNext(l2, e, new)
           l4 == SetPrev(l3, new, e)
<1>0. l.next[e] \in S /\ l.prev[new] \in S
  BY DEF Links
<1>1. l1 \in Links(S) /\ l1.next = l.next /\ l1.prev = [l.prev EXCEPT ![l.next[e]] = l.prev[new]]
  BY <1>0 DEF Links, SetNext, SetPrev
<1>2. l1.next[e] \in S /\ l1.prev[new] \in S
  BY <1>1 DEF Links
<1>3. /\ l2 \in Links(S) /\ l2.prev = l1.prev
      /\ l2.next = [l1.next EXCEPT ![l1.prev[new]] = l1.next[e]]
  BY <1>1, <1>2 DEF Links, SetNext, SetPrev
<1>4. l3 \in Links(S) /\ l3.prev = l2.prev /\ l3.next = [l2.next EXCEPT ![e] = new]
  BY <1>3 DEF Links, SetNext, SetPrev
<1>5. l4 \in Links(S) /\ l4.next = l3.next /\ l4.prev = [l3.prev EXCEPT ![new] = e]
  BY <1>4 DEF Links, SetNext, SetPrev
<1>6. l4 = list_entry_append(l, e, new)
  BY DEF list_entry_append
<1> HIDE DEF l1, l2, l3, l4
<1>7. Agree(l4, S)
  <2> SUFFICES ASSUME NEW x \in S
               PROVE  l4.prev[l4.next[x]] = x /\ l4.next[l4.prev[x]] = x
    BY DEF Agree
  <2>1. /\ l.next \in [S -> S] /\ l.prev \in [S -> S]
        /\ l4.next = [[l.next EXCEPT ![l1.prev[new]] = l.next[e]] EXCEPT ![e] = new]
        /\ l4.prev = [[l.prev EXCEPT ![l.next[e]] = l.prev[new]] EXCEPT ![new] = e]
    BY <1>1, <1>3, <1>4, <1>5 DEF Links
  <2>2. l1.prev[new] = l.prev[new]
    BY <1>0, <1>1, <2>1 DEF Agree
  <2>3. QED
    BY <2>1, <2>2, <1>0 DEF Agree
<1>8. l4.next = [[l.next EXCEPT ![l.prev[new]] = l.next[e]] EXCEPT ![e] = new]
  <2>1. l1.prev[new] = l.prev[new]
    BY <1>0, <1>1 DEF Agree, Links
  <2> QED BY <1>1, <1>3, <1>4, <1>5, <2>1
<1>9. QED
  BY <1>5, <1>6, <1>7, <1>8

\* list_entry_append_single_element() links an entry that is alone.
LEMMA AppendSingleAgrees ==
    ASSUME NEW S, NEW l \in Links(S), Agree(l, S), NEW e \in S, NEW new \in S,
           l.next[new] = new
    PROVE  /\ list_entry_append_single_element(l, e, new) \in Links(S)
           /\ Agree(list_entry_append_single_element(l, e, new), S)
           /\ list_entry_append_single_element(l, e, new).next =
                [[l.next EXCEPT ![new] = l.next[e]] EXCEPT ![e] = new]
<1> DEFINE l1 == SetPrev(l, l.next[e], new)
           l2 == SetNext(l1, new, l1.next[e])
           l3 == SetNext(l2, e, new)
           l4 == SetPrev(l3, new, e)
<1>0. l.next[e] \in S
  BY DEF Links
<1>1. l1 \in Links(S) /\ l1.next = l.next /\ l1.prev = [l.prev EXCEPT ![l.next[e]] = new]
  BY <1>0 DEF Links, SetNext, SetPrev
<1>2. l2 \in Links(S) /\ l2.prev = l1.prev /\ l2.next = [l1.next EXCEPT ![new] = l1.next[e]]
  BY <1>0, <1>1 DEF Links, SetNext, SetPrev
<1>3. l3 \in Links(S) /\ l3.prev = l2.prev /\ l3.next = [l2.next EXCEPT ![e] = new]
  BY <1>2 DEF Links, SetNext, SetPrev
<1>4. l4 \in Links(S) /\ l4.next = l3.next /\ l4.prev = [l3.prev EXCEPT ![new] = e]
  BY <1>3 DEF Links, SetNext, SetPrev
<1>5. l4 = list_entry_append_single_element(l, e, new)
  BY DEF list_entry_append_single_element
<1> HIDE DEF l1, l2, l3, l4
<1>6. Agree(l4, S)
  <2> SUFFICES ASSUME NEW x \in S
               PROVE  l4.prev[l4.next[x]] = x /\ l4.next[l4.prev[x]] = x
    BY DEF Agree
  <2>1. /\ l.next \in [S -> S] /\ l.prev \in [S -> S]
        /\ l4.next = [[l.next EXCEPT ![new] = l.next[e]] EXCEPT ![e] = new]
        /\ l4.prev = [[l.prev EXCEPT ![l.next[e]] = new] EXCEPT ![new] = e]
    BY <1>1, <1>2, <1>3, <1>4 DEF Links
  <2>2. QED
    BY <2>1, <1>0 DEF Agree
<1>7. l4.next = [[l.next EXCEPT ![new] = l.next[e]] EXCEPT ![e] = new]
  BY <1>1, <1>2, <1>3, <1>4
<1>8. QED
  BY <1>4, <1>5, <1>6, <1>7

-----------------------------------------------------------------------------
\* Every node starts as a list of its own (list_init and LIST_ENTRY_INIT of list.h).
LEMMA ListInitial == Init => ListInv
BY DEF Init, ListInv, Links, Single, LinksAgree, Outside, Nodes

\* Each operation of list.c, and each step of a loop of list.h, keeps the links in agreement.
LEMMA ListStep == ListInv /\ [Next]_vars => ListInv'
<1> SUFFICES ASSUME ListInv, [Next]_vars
             PROVE  ListInv'
  OBVIOUS
<1>0. /\ links \in Links(Nodes) /\ Agree(links, Nodes)
      /\ Entries \subseteq Nodes /\ Sentinel \in Nodes
  BY DEF ListInv, LinksAgree, Agree, Nodes
<1>A. ASSUME links' \in Links(Nodes), Agree(links', Nodes), UNCHANGED idle
      PROVE  ListInv'
  BY <1>A DEF ListInv, LinksAgree, Agree, idle, Outside
<1>1. ASSUME NEW e \in Entries, AddFirst(e)
      PROVE  ListInv'
  <2>1. links' \in Links(Nodes) /\ Agree(links', Nodes)
    BY <1>0, <1>1, AppendSingleAgrees DEF AddFirst, Alone, list_add_first
  <2>2. QED
    BY <1>1, <1>A, <2>1 DEF AddFirst
<1>2. ASSUME NEW e \in Entries, AddLast(e)
      PROVE  ListInv'
  <2>1. links.prev[Sentinel] \in Nodes
    BY <1>0 DEF Links
  <2>2. links' \in Links(Nodes) /\ Agree(links', Nodes)
    BY <1>0, <1>2, <2>1, AppendSingleAgrees DEF AddLast, Alone, list_add_last
  <2>3. QED
    BY <1>2, <1>A, <2>2 DEF AddLast
<1>3. ASSUME NEW e \in Entries, EntryRemove(e)
      PROVE  ListInv'
  <2>1. links' \in Links(Nodes) /\ Agree(links', Nodes)
    BY <1>0, <1>3, RemoveAgrees DEF EntryRemove
  <2>2. QED
    BY <1>3, <1>A, <2>1 DEF EntryRemove
<1>4. ASSUME NEW e \in Nodes, NEW f \in Nodes, Splice(e, f)
      PROVE  ListInv'
  <2>1. links' \in Links(Nodes) /\ Agree(links', Nodes)
    BY <1>0, <1>4, AppendAgrees DEF Splice
  <2>2. QED
    BY <1>4, <1>A, <2>1 DEF Splice
<1>5. CASE list_remove_first
  <2>1. links.next[Sentinel] \in Nodes
    BY <1>0 DEF Links
  <2>2. links' \in Links(Nodes) /\ Agree(links', Nodes)
    BY <1>0, <1>5, <2>1, RemoveAgrees DEF list_remove_first
  <2>3. QED
    BY <1>5, <1>A, <2>2 DEF list_remove_first
<1>6. CASE list_remove_last
  <2>1. links.prev[Sentinel] \in Nodes
    BY <1>0 DEF Links
  <2>2. links' \in Links(Nodes) /\ Agree(links', Nodes)
    BY <1>0, <1>6, <2>1, RemoveAgrees DEF list_remove_last
  <2>3. QED
    BY <1>6, <1>A, <2>2 DEF list_remove_last
<1>7. CASE IterStart
  <2>1. iter' \in Nodes /\ ahead' \in Nodes
    BY <1>0, <1>7 DEF IterStart, Links
  <2>2. QED
    BY <1>7, <2>1 DEF IterStart, ListInv, LinksAgree
<1>8. CASE IterStep
  <2>1. iter \in Nodes /\ ahead \in Nodes
    BY <1>8 DEF IterStep, ListInv
  <2>2. PICK l \in {links, list_entry_remove(links, iter)} : StepFrom(ahead, iter, l)
    BY <1>8 DEF IterStep
  <2>3. l \in Links(Nodes) /\ Agree(l, Nodes)
    <3>1. /\ list_entry_remove(links, iter) \in Links(Nodes)
          /\ Agree(list_entry_remove(links, iter), Nodes)
      BY <1>0, <2>1, RemoveAgrees, Zenon
    <3> QED BY <1>0, <2>2, <3>1, Zenon
  <2>4. links' = l
    BY <2>2 DEF StepFrom
  <2>5. ~Outside' => iter' \in Nodes /\ ahead' \in Nodes
    BY <2>1, <2>2, <2>3 DEF StepFrom, Outside, Links
  <2>6. QED
    BY <2>3, <2>4, <2>5 DEF ListInv, LinksAgree, Agree
<1>9. CASE UNCHANGED vars
  BY <1>9 DEF ListInv, LinksAgree, Outside, vars
<1>10. QED
  BY <1>1, <1>2, <1>3, <1>4, <1>5, <1>6, <1>7, <1>8, <1>9 DEF Next

\* The two directions of every circle agree in every reachable state, for
\* any number of entries: list.c keeps what verify_list() tests for.
THEOREM LinksAlwaysAgree == Spec => []LinksAgree
<1>1. ListInv => LinksAgree
  BY DEF ListInv
<1>2. QED
  BY <1>1, ListInitial, ListStep, PTL DEF Spec

-----------------------------------------------------------------------------
\* A set of natural numbers has a least element.
LEMMA LeastNat ==
  ASSUME NEW T \in SUBSET Nat, T # {}
  PROVE  \E x \in T : \A y \in T : x <= y
<1>1. \E x \in T : \A y \in T : ~(<<y, x>> \in OpToRel(<, Nat))
  BY NatLessThanWellFounded, WFMin
<1>2. ASSUME NEW x \in Nat, NEW y \in Nat, y < x
      PROVE  <<y, x>> \in OpToRel(<, Nat)
  BY <1>2 DEF OpToRel
<1> HIDE DEF OpToRel
<1>3. PICK x \in T : \A y \in T : ~(<<y, x>> \in OpToRel(<, Nat))
  BY <1>1, Zenon
<1>4. \A y \in T : ~(y < x)
  BY <1>2, <1>3
<1> QED BY <1>4

\* A sequence without duplicates is no longer than the set of its elements.
LEMMA InjectiveLength ==
  ASSUME NEW S, IsFiniteSet(S), NEW s \in Seq(S), \A i, j \in 1..Len(s) : s[i] = s[j] => i = j
  PROVE  Len(s) \in 0..Cardinality(S)
<1>1. Len(s) \in Nat /\ s \in [1..Len(s) -> S]
  OBVIOUS
<1>2. s \in Injection(1..Len(s), S)
  BY <1>1 DEF Injection, IsInjective
<1>3. Cardinality(1..Len(s)) <= Cardinality(S)
  BY <1>2, FS_Injection
<1>4. Cardinality(1..Len(s)) = Len(s)
  BY <1>1, FS_Interval
<1>5. Cardinality(S) \in Nat
  BY FS_CardinalityType
<1> QED BY <1>1, <1>3, <1>4, <1>5

-----------------------------------------------------------------------------
\* s is a circle of the links.
IsCircle(l, s) ==
    /\ s \in Seq(Nodes) /\ s # <<>>
    /\ \A i, j \in 1..Len(s) : s[i] = s[j] => i = j
    /\ \A i \in 1..Len(s) : l.next[s[i]] = IF i = Len(s) THEN s[1] ELSE s[i + 1]

\* Following the next pointers from n is well defined, for any number of steps.
LEMMA StepsExist ==
  ASSUME NEW l \in Links(Nodes), NEW n \in Nodes, NEW N \in Nat
  PROVE  \E f \in [0..N -> Nodes] : f[0] = n /\ \A i \in 1..N : f[i] = l.next[f[i - 1]]
<1> DEFINE Ok(k) == \E f \in [0..k -> Nodes] : f[0] = n /\ \A i \in 1..k : f[i] = l.next[f[i - 1]]
           T == {k \in Nat : ~Ok(k)}
<1>1. SUFFICES ASSUME T # {} PROVE FALSE
  OBVIOUS
<1>2. PICK k \in T : \A j \in T : k <= j
  <2>1. T \in SUBSET Nat
    OBVIOUS
  <2> HIDE DEF T
  <2> QED BY <1>1, <2>1, LeastNat
<1>3. k \in Nat /\ ~Ok(k)
  OBVIOUS
<1>4. l.next \in [Nodes -> Nodes]
  BY DEF Links
<1>5. CASE k = 0
  <2>1. [i \in 0..0 |-> n] \in [0..0 -> Nodes] /\ [i \in 0..0 |-> n][0] = n
    OBVIOUS
  <2>2. PICK f \in [0..0 -> Nodes] : f[0] = n
    BY <2>1, Zenon
  <2>3. Ok(0)
    BY <2>2
  <2> QED BY <1>3, <1>5, <2>3
<1>6. CASE k # 0
  <2>1. k - 1 \in Nat /\ Ok(k - 1)
    <3>1. k - 1 \in Nat /\ ~(k <= k - 1)
      BY <1>3, <1>6
    <3> HIDE DEF Ok
    <3> QED BY <1>2, <3>1
  <2>2. PICK f \in [0..(k - 1) -> Nodes] : f[0] = n /\ \A i \in 1..(k - 1) : f[i] = l.next[f[i - 1]]
    BY <2>1
  <2>3. PICK g : g = [i \in 0..k |-> IF i = k THEN l.next[f[k - 1]] ELSE f[i]]
    OBVIOUS
  <2>4. f[k - 1] \in Nodes /\ l.next[f[k - 1]] \in Nodes
    BY <1>4, <2>1, <2>2
  <2>5. g \in [0..k -> Nodes] /\ g[0] = n
    BY <1>3, <1>6, <2>2, <2>3, <2>4
  <2>6. \A i \in 1..k : g[i] = l.next[g[i - 1]]
    BY <1>3, <1>6, <2>2, <2>3
  <2> QED BY <1>3, <2>5, <2>6
<1> QED BY <1>5, <1>6

\* Circle() returns the circle of its argument, if there is one.
LEMMA CircleIs ==
  ASSUME NEW l \in Links(Nodes), NEW s, IsCircle(l, s)
  PROVE  Circle(l, s[1]) = s
<1> DEFINE n == s[1]
           N == Cardinality(Nodes)
           at[i \in 0..N] == IF i = 0 THEN n ELSE l.next[at[i - 1]]
           ends == {i \in 1..N : at[i] = n}
           len == IF ends = {} THEN N ELSE CHOOSE i \in ends : \A j \in ends : i <= j
<1>1. IsFiniteSet(Nodes) /\ N \in Nat
  <2>1. IsFiniteSet(Nodes)
    BY SentinelAssumption, FS_AddElement DEF Nodes
  <2> QED BY <2>1, FS_CardinalityType
<1>2. /\ s \in Seq(Nodes) /\ s # <<>> /\ Len(s) \in Nat /\ Len(s) >= 1 /\ s[1] \in Nodes
      /\ \A i, j \in 1..Len(s) : s[i] = s[j] => i = j
      /\ \A i \in 1..Len(s) : l.next[s[i]] = IF i = Len(s) THEN s[1] ELSE s[i + 1]
  BY DEF IsCircle
<1>3. Len(s) <= N
  BY <1>1, <1>2, InjectiveLength
<1>4. at = [i \in 0..N |-> IF i = 0 THEN n ELSE l.next[at[i - 1]]]
  <2> DEFINE F(f) == [i \in 0..N |-> IF i = 0 THEN n ELSE l.next[f[i - 1]]]
  <2>1. \E f : f = F(f)
    <3> HIDE DEF N, n
    <3>1. n \in Nodes
      BY <1>2 DEF n
    <3>2. PICK f \in [0..N -> Nodes] : f[0] = n /\ \A i \in 1..N : f[i] = l.next[f[i - 1]]
      BY <1>1, <3>1, StepsExist, Zenon
    <3>3. f = F(f)
      BY <1>1, <3>2
    <3> QED BY <3>3
  <2>2. at = CHOOSE f : f = F(f)
    OBVIOUS
  <2> HIDE DEF F
  <2>3. at = F(at)
    BY <2>1, <2>2, Zenon
  <2> QED BY <2>3 DEF F
<1>5. Circle(l, n) = [i \in 1..len |-> at[i - 1]]
  BY DEF Circle
<1> HIDE DEF at, N
<1>6. at[0] = n /\ \A i \in 1..N : at[i] = l.next[at[i - 1]]
  BY <1>1, <1>4
<1>7. \A k \in 0..(Len(s) - 1) : at[k] = s[k + 1]
  <2> DEFINE T == {k \in 0..(Len(s) - 1) : at[k] # s[k + 1]}
  <2>1. SUFFICES ASSUME T # {} PROVE FALSE
    OBVIOUS
  <2>2. PICK k \in T : \A j \in T : k <= j
    <3>1. T \in SUBSET Nat
      BY <1>2
    <3> HIDE DEF T
    <3> QED BY <2>1, <3>1, LeastNat
  <2>3. k \in 0..(Len(s) - 1) /\ at[k] # s[k + 1]
    OBVIOUS
  <2>4. k # 0
    BY <1>6, <2>3
  <2>5. k - 1 \in 0..(Len(s) - 1) /\ k - 1 \notin T
    BY <1>2, <2>2, <2>3, <2>4
  <2>6. at[k - 1] = s[k] /\ k \in 1..Len(s) /\ k # Len(s) /\ k \in 1..N
    BY <1>1, <1>2, <1>3, <2>3, <2>4, <2>5
  <2>7. l.next[s[k]] = s[k + 1]
    BY <1>2, <2>6
  <2> QED BY <1>6, <2>3, <2>6, <2>7
<1>8. at[Len(s)] = n
  <2>1. at[Len(s) - 1] = s[Len(s)]
    BY <1>2, <1>7
  <2>2. Len(s) \in 1..N /\ Len(s) \in 1..Len(s)
    BY <1>1, <1>2, <1>3
  <2>3. at[Len(s)] = l.next[at[Len(s) - 1]]
    BY <1>6, <2>2
  <2> QED BY <1>2, <2>1, <2>2, <2>3
<1>9. Len(s) \in ends /\ \A j \in ends : Len(s) <= j
  <2>1. Len(s) \in ends
    BY <1>1, <1>2, <1>3, <1>8
  <2>2. ASSUME NEW j \in 1..N, at[j] = n, j < Len(s) PROVE FALSE
    <3>1. at[j] = s[j + 1] /\ j + 1 \in 1..Len(s)
      BY <1>1, <1>2, <1>7, <2>2
    <3>2. 1 \in 1..Len(s) /\ j + 1 # 1
      BY <1>1, <1>2
    <3> QED BY <1>2, <2>2, <3>1, <3>2
  <2> QED BY <1>1, <1>2, <2>1, <2>2
<1>10. len = Len(s)
  <2>1. \A i \in ends : (\A j \in ends : i <= j) => i = Len(s)
    BY <1>1, <1>2, <1>9
  <2> HIDE DEF ends
  <2> QED BY <1>9, <2>1, Zenon
<1> HIDE DEF len
<1>11. [i \in 1..len |-> at[i - 1]] = s
  BY <1>2, <1>7, <1>10
<1> QED BY <1>5, <1>11

\* A circle can be read from any of its entries.
LEMMA FromIs ==
  ASSUME NEW l, NEW s, IsCircle(l, s), NEW i \in 1..Len(s)
  PROVE  /\ IsCircle(l, Abstract!From(s, s[i])) /\ Abstract!From(s, s[i])[1] = s[i]
         /\ Len(Abstract!From(s, s[i])) = Len(s)
         /\ \A k \in 1..Len(s) : Abstract!From(s, s[i])[k] =
                IF k + i - 1 <= Len(s) THEN s[k + i - 1] ELSE s[k + i - 1 - Len(s)]
<1>1. /\ s \in Seq(Nodes) /\ s # <<>> /\ Len(s) \in Nat /\ Len(s) >= 1
      /\ \A a, b \in 1..Len(s) : s[a] = s[b] => a = b
      /\ \A a \in 1..Len(s) : l.next[s[a]] = IF a = Len(s) THEN s[1] ELSE s[a + 1]
  BY DEF IsCircle
<1>L. Len(s) \in Nat /\ Len(s) >= 1
  BY <1>1
<1>2. Abstract!At(s, s[i]) = i
  <2>1. DOMAIN s = 1..Len(s)
    BY <1>1
  <2>2. \A j \in DOMAIN s : s[j] = s[i] => j = i
    BY <1>1, <2>1, Zenon
  <2>3. i \in DOMAIN s
    BY <2>1
  <2> QED BY <2>2, <2>3, Zenon DEF Abstract!At
<1>3. PICK t : t = Abstract!From(s, s[i])
  OBVIOUS
<1>4. t = SubSeq(s, i, Len(s)) \o SubSeq(s, 1, i - 1)
  BY <1>2, <1>3, Zenon DEF Abstract!From
<1>5. /\ SubSeq(s, i, Len(s)) \in Seq(Nodes) /\ Len(SubSeq(s, i, Len(s))) = Len(s) - i + 1
      /\ \A k \in 1..(Len(s) - i + 1) : SubSeq(s, i, Len(s))[k] = s[k + i - 1]
      /\ SubSeq(s, 1, i - 1) \in Seq(Nodes) /\ Len(SubSeq(s, 1, i - 1)) = i - 1
      /\ \A k \in 1..(i - 1) : SubSeq(s, 1, i - 1)[k] = s[k]
  BY <1>1
<1>6. t \in Seq(Nodes) /\ Len(t) = Len(s)
  BY <1>1, <1>4, <1>5
<1>7. \A k \in 1..Len(s) : t[k] = IF k + i - 1 <= Len(s) THEN s[k + i - 1] ELSE s[k + i - 1 - Len(s)]
  BY <1>1, <1>4, <1>5
<1>8. \A a, b \in 1..Len(t) : t[a] = t[b] => a = b
  <2> SUFFICES ASSUME NEW a \in 1..Len(s), NEW b \in 1..Len(s), t[a] = t[b]
               PROVE  a = b
    BY <1>6
  <2> DEFINE P(k) == IF k + i - 1 <= Len(s) THEN k + i - 1 ELSE k + i - 1 - Len(s)
  <2>1. P(a) \in 1..Len(s) /\ P(b) \in 1..Len(s) /\ t[a] = s[P(a)] /\ t[b] = s[P(b)]
    <3>1. ASSUME NEW k \in 1..Len(s) PROVE P(k) \in 1..Len(s) /\ t[k] = s[P(k)]
      BY <1>L, <1>7
    <3> QED BY <3>1
  <2>2. P(a) = P(b)
    <3> HIDE DEF P
    <3> QED BY <1>1, <2>1
  <2> QED BY <1>L, <2>2
<1>9. \A a \in 1..Len(t) : l.next[t[a]] = IF a = Len(t) THEN t[1] ELSE t[a + 1]
  <2> SUFFICES ASSUME NEW a \in 1..Len(s)
               PROVE  l.next[t[a]] = IF a = Len(s) THEN t[1] ELSE t[a + 1]
    BY <1>6
  <2>1. CASE a + i - 1 < Len(s)
    <3>1. t[a] = s[a + i - 1] /\ a + i - 1 \in 1..Len(s) /\ a # Len(s)
      BY <1>L, <1>7, <2>1
    <3>2. l.next[t[a]] = s[a + i - 1 + 1]
      BY <1>1, <2>1, <3>1
    <3>3. t[a + 1] = s[a + i - 1 + 1]
      BY <1>1, <1>7, <2>1
    <3> QED BY <3>1, <3>2, <3>3
  <2>2. CASE a + i - 1 = Len(s)
    <3>1. t[a] = s[Len(s)] /\ l.next[t[a]] = s[1]
      <4>1. Len(s) \in 1..Len(s)
        BY <1>L
      <4>2. t[a] = s[Len(s)]
        BY <1>L, <1>7, <2>2
      <4> QED BY <1>1, <4>1, <4>2
    <3>2. CASE a = Len(s)
      <4>1. i = 1 /\ t[1] = s[1]
        BY <1>1, <1>7, <2>2, <3>2
      <4> QED BY <3>1, <3>2, <4>1
    <3>3. CASE a # Len(s)
      <4>1. a + 1 \in 1..Len(s) /\ (a + 1) + i - 1 - Len(s) = 1 /\ ~((a + 1) + i - 1 <= Len(s))
        BY <1>L, <2>2, <3>3
      <4>2. t[a + 1] = s[1]
        BY <1>7, <4>1
      <4> QED BY <3>1, <3>3, <4>2
    <3> QED BY <3>2, <3>3
  <2>3. CASE a + i - 1 > Len(s)
    <3>1. t[a] = s[a + i - 1 - Len(s)] /\ a + i - 1 - Len(s) \in 1..Len(s)
          /\ a + i - 1 - Len(s) # Len(s)
      BY <1>1, <1>7, <2>3
    <3>2. l.next[t[a]] = s[(a + i - 1 - Len(s)) + 1]
      BY <1>1, <3>1
    <3>3. CASE a = Len(s)
      <4>1. (a + i - 1 - Len(s)) + 1 = i /\ t[1] = s[i]
        BY <1>1, <1>7, <3>3
      <4> QED BY <3>2, <3>3, <4>1
    <3>4. CASE a # Len(s)
      <4>1. t[a + 1] = s[(a + i - 1 - Len(s)) + 1]
        <5>1. a + 1 \in 1..Len(s) /\ ~((a + 1) + i - 1 <= Len(s))
              /\ (a + 1) + i - 1 - Len(s) = (a + i - 1 - Len(s)) + 1
          BY <1>1, <2>3, <3>4
        <5> QED BY <1>7, <5>1
      <4> QED BY <3>2, <3>4, <4>1
    <3> QED BY <3>3, <3>4
  <2> QED BY <1>1, <2>1, <2>2, <2>3
<1>10. t # <<>> /\ t[1] = s[i]
  BY <1>1, <1>6, <1>7
<1>11. IsCircle(l, t)
  BY <1>6, <1>8, <1>9, <1>10, Zenon DEF IsCircle
<1> QED BY <1>3, <1>6, <1>7, <1>10, <1>11

\* The same, of which entries it is made left out.
LEMMA FromCircle ==
  ASSUME NEW l, NEW s, IsCircle(l, s), NEW i \in 1..Len(s)
  PROVE  IsCircle(l, Abstract!From(s, s[i])) /\ Abstract!From(s, s[i])[1] = s[i]
BY FromIs

\* Every entry is in a circle.
Divided(l) == \A n \in Nodes : \E s : IsCircle(l, s) /\ s[1] = n

\* Circle() returns the circle of each entry.
LEMMA DividedCircle ==
  ASSUME NEW l \in Links(Nodes), Divided(l), NEW n \in Nodes
  PROVE  IsCircle(l, Circle(l, n)) /\ Circle(l, n)[1] = n
<1>1. PICK s : IsCircle(l, s) /\ s[1] = n
  BY Zenon DEF Divided
<1> QED BY <1>1, CircleIs, Zenon

\* Two entries of a circle have the same circle.
LEMMA SameCircle ==
  ASSUME NEW l \in Links(Nodes), NEW s, IsCircle(l, s), NEW i \in 1..Len(s)
  PROVE  Circle(l, s[i]) = Abstract!From(s, s[i])
BY FromCircle, CircleIs, Zenon

\* Sequence u is s begun at entry i.
Turned(u, s, i) ==
    /\ Len(u) = Len(s)
    /\ \A a \in 1..Len(s) : u[a] = IF a + i - 1 <= Len(s) THEN s[a + i - 1] ELSE s[a + i - 1 - Len(s)]

\* From() turns a circle.
LEMMA FromTurns ==
  ASSUME NEW l, NEW s, IsCircle(l, s), NEW i \in 1..Len(s)
  PROVE  Turned(Abstract!From(s, s[i]), s, i)
BY FromIs, Zenon DEF Turned

\* Circles that share an entry have the same entries.
LEMMA CirclesMeet ==
  ASSUME NEW l \in Links(Nodes), NEW s, IsCircle(l, s), NEW t, IsCircle(l, t),
         NEW i \in 1..Len(s), NEW j \in 1..Len(t), s[i] = t[j], NEW k \in 1..Len(t)
  PROVE  \E m \in 1..Len(s) : s[m] = t[k]
<1>1. Abstract!From(s, s[i]) = Abstract!From(t, t[j])
  BY SameCircle, Zenon
<1>2. PICK u : u = Abstract!From(s, s[i])
  OBVIOUS
<1>3. Len(s) \in Nat /\ Len(t) \in Nat
  BY DEF IsCircle
<1>4. /\ Len(u) = Len(s)
      /\ \A a \in 1..Len(s) : u[a] = IF a + i - 1 <= Len(s) THEN s[a + i - 1]
                                                            ELSE s[a + i - 1 - Len(s)]
  <2>1. Turned(u, s, i)
    BY <1>2, FromTurns, Zenon
  <2> QED BY <2>1, Zenon DEF Turned
<1>5. /\ Len(u) = Len(t)
      /\ \A a \in 1..Len(t) : u[a] = IF a + j - 1 <= Len(t) THEN t[a + j - 1]
                                                            ELSE t[a + j - 1 - Len(t)]
  <2>1. Turned(Abstract!From(t, t[j]), t, j)
    BY FromTurns, Zenon
  <2>2. Turned(u, t, j)
    BY <1>1, <1>2, <2>1, Zenon
  <2> QED BY <2>2, Zenon DEF Turned
<1>6. PICK a \in 1..Len(t) : u[a] = t[k]
  <2>1. CASE k >= j
    <3>1. k - j + 1 \in 1..Len(t) /\ (k - j + 1) + j - 1 = k
      BY <1>3, <2>1
    <3>2. u[k - j + 1] = IF (k - j + 1) + j - 1 <= Len(t) THEN t[(k - j + 1) + j - 1]
                           ELSE t[(k - j + 1) + j - 1 - Len(t)]
      BY <1>5, <3>1, Zenon
    <3>3. u[k - j + 1] = t[k]
      BY <1>3, <3>1, <3>2
    <3> QED BY <3>1, <3>3, Zenon
  <2>2. CASE k < j
    <3>1. /\ k - j + 1 + Len(t) \in 1..Len(t) /\ (k - j + 1 + Len(t)) + j - 1 - Len(t) = k
          /\ ~((k - j + 1 + Len(t)) + j - 1 <= Len(t))
      BY <1>3, <2>2
    <3>2. u[k - j + 1 + Len(t)] = t[k]
      BY <1>5, <3>1
    <3> QED BY <3>1, <3>2, Zenon
  <2> QED BY <1>3, <2>1, <2>2
<1>7. CASE a + i - 1 <= Len(s)
  <2>1. u[a] = s[a + i - 1] /\ a + i - 1 \in 1..Len(s)
    BY <1>3, <1>4, <1>5, <1>7
  <2> QED BY <1>6, <2>1, Zenon
<1>8. CASE a + i - 1 > Len(s)
  <2>1. u[a] = s[a + i - 1 - Len(s)] /\ a + i - 1 - Len(s) \in 1..Len(s)
    BY <1>3, <1>4, <1>5, <1>8
  <2> QED BY <1>6, <2>1, Zenon
<1> QED BY <1>3, <1>4, <1>5, <1>7, <1>8

\* What is known of a circle.
CircleFact(l, s) ==
    /\ s \in Seq(Nodes) /\ Len(s) \in Nat /\ Len(s) >= 1
    /\ \A i \in 1..Len(s) : s[i] \in Nodes
    /\ \A i, j \in 1..Len(s) : s[i] = s[j] => i = j
    /\ \A i \in 1..Len(s) : i # Len(s) => l.next[s[i]] = s[i + 1]
    /\ l.next[s[Len(s)]] = s[1]

\* Its last entry leads to the first.
LEMMA CircleFacts ==
  ASSUME NEW l, NEW s, IsCircle(l, s)
  PROVE  CircleFact(l, s)
<1>1. s \in Seq(Nodes) /\ Len(s) \in Nat /\ Len(s) >= 1
  BY DEF IsCircle
<1> QED BY <1>1 DEF IsCircle, CircleFact

\* A circle stays one when the links of its entries do.
LEMMA CircleKept ==
  ASSUME NEW l, NEW m, NEW s, IsCircle(l, s), \A i \in 1..Len(s) : m.next[s[i]] = l.next[s[i]]
  PROVE  IsCircle(m, s)
BY Zenon DEF IsCircle

\* The next pointers m after entry e was taken out of l.
Removed(l, e, m) ==
    m \in Links(Nodes) /\ m.next = [[l.next EXCEPT ![l.prev[e]] = l.next[e]] EXCEPT ![e] = e]

\* The circle of n is now without e.
Left(l, e, m, n) ==
    /\ \E s : IsCircle(m, s) /\ s[1] = n
    /\ Circle(m, n) = IF n = e THEN <<e>> ELSE Abstract!Without(Circle(l, n), e)

\* list_entry_remove(): the entry leaves its circle, which keeps its order.
LEMMA LeaveIs ==
  ASSUME NEW l \in Links(Nodes), Agree(l, Nodes), Divided(l), NEW e \in Nodes, NEW n \in Nodes,
         NEW m, Removed(l, e, m)
  PROVE  Left(l, e, m, n)
<1> USE DEF Left
<1>0. m \in Links(Nodes) /\ m.next = [[l.next EXCEPT ![l.prev[e]] = l.next[e]] EXCEPT ![e] = e]
  BY DEF Removed
<1>1. /\ l.next \in [Nodes -> Nodes] /\ l.prev \in [Nodes -> Nodes]
      /\ \A x \in Nodes : l.prev[l.next[x]] = x /\ l.next[l.prev[x]] = x
  BY DEF Links, Agree
<1>2. SUFFICES ASSUME NEW t, t = IF n = e THEN <<e>> ELSE Abstract!Without(Circle(l, n), e)
               PROVE  IsCircle(m, t) /\ t[1] = n
  BY <1>0, CircleIs, Zenon
<1>3. CASE n = e
  <2>1. t = <<e>> /\ <<e>> \in Seq(Nodes) /\ Len(<<e>>) = 1 /\ <<e>>[1] = e
    BY <1>2, <1>3
  <2>2. m.next[e] = e
    BY <1>0, <1>1
  <2> QED BY <1>3, <2>1, <2>2 DEF IsCircle
<1>4. CASE n # e
  <2>1. PICK s : s = Circle(l, n)
    OBVIOUS
  <2>2. IsCircle(l, s) /\ s[1] = n /\ t = Abstract!Without(s, e)
    BY <1>2, <1>4, <2>1, DividedCircle, Zenon
  <2>3. /\ s \in Seq(Nodes) /\ Len(s) \in Nat /\ Len(s) >= 1
        /\ \A i \in 1..Len(s) : s[i] \in Nodes
        /\ \A i, j \in 1..Len(s) : s[i] = s[j] => i = j
        /\ \A i \in 1..Len(s) : i # Len(s) => l.next[s[i]] = s[i + 1]
        /\ l.next[s[Len(s)]] = s[1]
    BY <2>2, CircleFacts, Zenon DEF CircleFact
  <2>D. DOMAIN s = 1..Len(s)
    BY <2>3
  <2>L. Len(s) \in Nat /\ Len(s) >= 1
    BY <2>3
  <2>I. \A i, j \in 1..Len(s) : s[i] = s[j] => i = j
    BY <2>3
  <2>4. CASE ~\E i \in 1..Len(s) : s[i] = e
    <3>1. t = s
      BY <2>2, <2>D, <2>4, Zenon DEF Abstract!Without, Abstract!In
    <3>2. ASSUME NEW i \in 1..Len(s) PROVE m.next[s[i]] = l.next[s[i]]
      <4>1. \E j \in 1..Len(s) : l.next[s[i]] = s[j]
        <5>1. i # Len(s) => i + 1 \in 1..Len(s)
          BY <2>3
        <5>2. 1 \in 1..Len(s)
          BY <2>3
        <5> QED BY <2>3, <5>1, <5>2
      <4>2. s[i] # e /\ l.next[s[i]] # e /\ s[i] \in Nodes
        BY <2>3, <2>4, <4>1, Zenon
      <4>3. s[i] # l.prev[e]
        BY <1>1, <4>2
      <4> QED BY <1>0, <1>1, <4>2, <4>3
    <3> QED BY <2>2, <3>1, <3>2, CircleKept, Zenon
  <2>5. ASSUME NEW i \in 1..Len(s), s[i] = e
        PROVE  IsCircle(m, t) /\ t[1] = n
    <3>0. i # 1 /\ i - 1 \in 1..Len(s) /\ i - 1 # Len(s)
      BY <1>4, <2>2, <2>3, <2>5
    <3>1. Abstract!At(s, e) = i
      <4>1. \A j \in DOMAIN s : s[j] = e => j = i
        BY <2>3, <2>D, <2>5, Zenon
      <4>2. i \in DOMAIN s
        BY <2>D
      <4> QED BY <2>5, <4>1, <4>2, Zenon DEF Abstract!At
    <3>2. t = SubSeq(s, 1, i - 1) \o SubSeq(s, i + 1, Len(s))
      <4>1. Abstract!In(e, s)
        BY <2>D, <2>5, Zenon DEF Abstract!In
      <4> QED BY <2>2, <3>1, <4>1, Zenon DEF Abstract!Without
    <3>3. PICK a, b : a = SubSeq(s, 1, i - 1) /\ b = SubSeq(s, i + 1, Len(s))
      OBVIOUS
    <3>a. a \in Seq(Nodes) /\ Len(a) = i - 1 /\ \A k \in 1..(i - 1) : a[k] = s[k]
      BY <2>3, <3>3
    <3>b. b \in Seq(Nodes) /\ Len(b) = Len(s) - i /\ \A k \in 1..(Len(s) - i) : b[k] = s[k + i]
      BY <2>3, <3>3
    <3>t. /\ t \in Seq(Nodes) /\ Len(t) = Len(a) + Len(b)
          /\ \A k \in 1..(Len(a) + Len(b)) : t[k] = IF k <= Len(a) THEN a[k] ELSE b[k - Len(a)]
      <4>1. t = a \o b
        BY <3>2, <3>3, Zenon
      <4>2. /\ a \o b \in Seq(Nodes) /\ Len(a \o b) = Len(a) + Len(b)
            /\ \A k \in 1..(Len(a) + Len(b)) :
                 (a \o b)[k] = IF k <= Len(a) THEN a[k] ELSE b[k - Len(a)]
        <5>1. a \in Seq(Nodes) /\ b \in Seq(Nodes)
          BY <3>a, <3>b
        <5> QED BY <5>1
      <4> QED BY <4>1, <4>2, Zenon
    <3>4. t \in Seq(Nodes) /\ Len(t) = Len(s) - 1
      BY <2>L, <3>a, <3>b, <3>t
    <3>5. \A k \in 1..(Len(s) - 1) : t[k] = IF k < i THEN s[k] ELSE s[k + 1]
      <4> SUFFICES ASSUME NEW k \in 1..(Len(s) - 1)
                   PROVE  t[k] = IF k < i THEN s[k] ELSE s[k + 1]
        OBVIOUS
      <4>1. t[k] = IF k <= Len(a) THEN a[k] ELSE b[k - Len(a)]
        BY <2>L, <3>a, <3>b, <3>t
      <4>2. CASE k < i
        BY <2>L, <3>a, <4>1, <4>2
      <4>3. CASE k >= i
        <5>1. k - Len(a) \in 1..(Len(s) - i) /\ (k - Len(a)) + i = k + 1 /\ ~(k <= Len(a))
          BY <2>L, <3>a, <4>3
        <5>2. b[k - Len(a)] = s[(k - Len(a)) + i]
          BY <3>b, <5>1, Zenon
        <5> QED BY <2>L, <4>1, <4>3, <5>1, <5>2
      <4> QED BY <2>L, <4>2, <4>3
    <3>6. \A c, d \in 1..Len(t) : t[c] = t[d] => c = d
      <4> SUFFICES ASSUME NEW c \in 1..(Len(s) - 1), NEW d \in 1..(Len(s) - 1), t[c] = t[d]
                   PROVE  c = d
        BY <3>4
      <4> DEFINE P(k) == IF k < i THEN k ELSE k + 1
      <4>1. ASSUME NEW k \in 1..(Len(s) - 1) PROVE P(k) \in 1..Len(s) /\ t[k] = s[P(k)]
        BY <2>L, <3>5
      <4>2. P(c) = P(d)
        <5> HIDE DEF P
        <5> QED BY <2>I, <4>1
      <4> QED BY <2>L, <4>2
    <3>7. l.prev[e] = s[i - 1] /\ l.next[e] = IF i = Len(s) THEN s[1] ELSE s[i + 1]
      <4>1. l.next[s[i - 1]] = s[(i - 1) + 1] /\ (i - 1) + 1 = i
        BY <2>3, <3>0
      <4>2. l.prev[e] = s[i - 1]
        BY <1>1, <2>3, <2>5, <3>0, <4>1
      <4> QED BY <2>3, <2>5, <4>2
    <3>8. ASSUME NEW k \in 1..(Len(s) - 1)
          PROVE  m.next[t[k]] = IF k = Len(s) - 1 THEN t[1] ELSE t[k + 1]
      <4>1. CASE k = i - 1
        <5>1. t[k] = s[i - 1] /\ s[i - 1] # e /\ s[i - 1] \in Nodes
          BY <2>3, <2>5, <3>0, <3>5, <4>1
        <5>2. m.next[t[k]] = l.next[e]
          BY <1>0, <1>1, <3>7, <5>1
        <5>3. CASE i = Len(s)
          <6>1. k = Len(s) - 1 /\ t[1] = s[1]
            BY <2>3, <3>0, <3>5, <4>1, <5>3
          <6> QED BY <3>7, <5>2, <5>3, <6>1
        <5>4. CASE i # Len(s)
          <6>1. k # Len(s) - 1 /\ k + 1 = i /\ i \in 1..(Len(s) - 1)
            BY <2>3, <3>0, <4>1, <5>4
          <6>2. t[i] = s[i + 1]
            BY <2>3, <3>5, <6>1
          <6> QED BY <3>7, <5>2, <5>4, <6>1, <6>2
        <5> QED BY <5>3, <5>4
      <4>2. ASSUME k # i - 1, NEW c \in 1..Len(s), t[k] = s[c], c # i, c # i - 1
            PROVE  m.next[t[k]] = l.next[s[c]]
        <5>1. s[c] # e /\ s[c] # l.prev[e] /\ s[c] \in Nodes
          BY <2>3, <2>5, <3>0, <3>7, <4>2
        <5> QED BY <1>0, <1>1, <4>2, <5>1
      <4>3. CASE k < i - 1
        <5>1. k \in 1..Len(s) /\ t[k] = s[k] /\ k # i /\ k # i - 1 /\ k # Len(s) /\ k # Len(s) - 1
          BY <2>3, <3>0, <3>5, <4>3
        <5>2. m.next[t[k]] = s[k + 1]
          BY <2>3, <4>2, <5>1
        <5>3. t[k + 1] = s[k + 1]
          <6>1. k + 1 \in 1..(Len(s) - 1) /\ k + 1 < i
            BY <2>L, <3>0, <4>3
          <6> QED BY <3>5, <6>1
        <5> QED BY <5>1, <5>2, <5>3
      <4>4. CASE k > i - 1
        <5>1. k + 1 \in 1..Len(s) /\ t[k] = s[k + 1] /\ k + 1 # i /\ k + 1 # i - 1 /\ k # i - 1
          BY <2>3, <3>0, <3>5, <4>4
        <5>2. m.next[t[k]] = l.next[s[k + 1]]
          BY <4>2, <5>1
        <5>3. CASE k = Len(s) - 1
          <6>1. k + 1 = Len(s) /\ t[1] = s[1]
            BY <2>3, <3>0, <3>5, <5>3
          <6> QED BY <2>3, <5>2, <5>3, <6>1
        <5>4. CASE k # Len(s) - 1
          <6>1. k + 1 # Len(s) /\ k + 1 \in 1..(Len(s) - 1) /\ ~(k + 1 < i)
            BY <2>3, <4>4, <5>4
          <6>2. t[k + 1] = s[(k + 1) + 1]
            BY <3>5, <6>1
          <6>3. l.next[s[k + 1]] = s[(k + 1) + 1]
            BY <2>3, <5>1, <6>1
          <6> QED BY <5>2, <5>4, <6>2, <6>3
        <5> QED BY <5>3, <5>4
      <4> QED BY <2>3, <3>0, <4>1, <4>3, <4>4
    <3>9. t # <<>> /\ t[1] = n
      BY <2>2, <2>3, <3>0, <3>4, <3>5
    <3>10. \A k \in 1..Len(t) : m.next[t[k]] = IF k = Len(t) THEN t[1] ELSE t[k + 1]
      BY <3>4, <3>8, Zenon
    <3> QED BY <3>4, <3>6, <3>9, <3>10, Zenon DEF IsCircle
  <2> QED BY <2>4, <2>5, Zenon
<1> QED BY <1>3, <1>4

\* Two circles have no entry in common.
Apart(s, t) == \A i \in 1..Len(s), j \in 1..Len(t) : s[i] # t[j]

\* A circle has no entry in common with one whose first entry it does not hold.
LEMMA CirclesApart ==
  ASSUME NEW l \in Links(Nodes), NEW s, IsCircle(l, s), NEW t, IsCircle(l, t),
         ~Abstract!In(t[1], s)
  PROVE  Apart(s, t)
<1> SUFFICES ASSUME NEW i \in 1..Len(s), NEW j \in 1..Len(t), s[i] = t[j]
             PROVE  FALSE
  BY DEF Apart
<1>1. 1 \in 1..Len(t)
  BY DEF IsCircle
<1>2. \E k \in 1..Len(s) : s[k] = t[1]
  BY <1>1, CirclesMeet
<1>3. DOMAIN s = 1..Len(s)
  BY DEF IsCircle
<1> QED BY <1>2, <1>3, Zenon DEF Abstract!In

\* A circle with another one put in after its first entry.
Joined(all, s, t) ==
    /\ all \in Seq(Nodes) /\ Len(all) = Len(t) + Len(s) /\ all[1] = s[1]
    /\ \A k \in 1..Len(t) : all[k + 1] = t[k]
    /\ \A k \in 2..Len(s) : all[Len(t) + k] = s[k]

\* It is the concatenation that Join() takes.
LEMMA JoinedSequence ==
  ASSUME NEW s \in Seq(Nodes), NEW t \in Seq(Nodes), Len(s) >= 1
  PROVE  Joined(<<s[1]>> \o t \o Tail(s), s, t)
<1>0. s[1] \in Nodes /\ Tail(s) \in Seq(Nodes) /\ Len(Tail(s)) = Len(s) - 1
  OBVIOUS
<1>1. <<s[1]>> \o t \in Seq(Nodes)
  BY <1>0
<1>2. <<s[1]>> \o t \o Tail(s) \in Seq(Nodes)
  BY <1>0, <1>1
<1>3. Len(<<s[1]>> \o t \o Tail(s)) = Len(t) + Len(s)
  BY <1>0, <1>1
<1>4. (<<s[1]>> \o t \o Tail(s))[1] = s[1]
  BY <1>0, <1>1
<1>5. \A k \in 1..Len(t) : (<<s[1]>> \o t \o Tail(s))[k + 1] = t[k]
  BY <1>0, <1>1
<1>6. \A k \in 2..Len(s) : (<<s[1]>> \o t \o Tail(s))[Len(t) + k] = s[k]
  BY <1>0, <1>1
<1> QED BY <1>2, <1>3, <1>4, <1>5, <1>6 DEF Joined

\* A natural number that is neither zero nor one.
LEMMA AtLeastTwo == ASSUME NEW n \in Nat, n >= 1, n # 1 PROVE n >= 2
OBVIOUS

\* Two circles become one.
LEMMA JoinedCircle ==
  ASSUME NEW l, NEW m, NEW s, CircleFact(l, s), NEW t, CircleFact(l, t),
         Apart(s, t), m.next[s[1]] = t[1], m.next[t[Len(t)]] = l.next[s[1]],
         \A x \in Nodes : x # s[1] /\ x # t[Len(t)] => m.next[x] = l.next[x],
         NEW all, Joined(all, s, t)
  PROVE  IsCircle(m, all)
<1>1. /\ \A i \in 1..Len(s) : s[i] \in Nodes
      /\ \A i \in 1..Len(s) : i # Len(s) => l.next[s[i]] = s[i + 1]
      /\ l.next[s[Len(s)]] = s[1]
  BY Zenon DEF CircleFact
<1>2. /\ \A i \in 1..Len(t) : t[i] \in Nodes
      /\ \A i \in 1..Len(t) : i # Len(t) => l.next[t[i]] = t[i + 1]
      /\ l.next[t[Len(t)]] = t[1]
  BY Zenon DEF CircleFact
<1>i. \A i, j \in 1..Len(s) : s[i] = s[j] => i = j
  BY Zenon DEF CircleFact
<1>j. \A i, j \in 1..Len(t) : t[i] = t[j] => i = j
  BY Zenon DEF CircleFact
<1>3. /\ Len(s) \in Nat /\ Len(s) >= 1 /\ Len(t) \in Nat /\ Len(t) >= 1
      /\ 1 \in 1..Len(s) /\ Len(t) \in 1..Len(t) /\ 1 \in 1..Len(t)
  BY DEF CircleFact
<1>L. all \in Seq(Nodes) /\ Len(all) = Len(t) + Len(s)
  BY Zenon DEF Joined
<1>J. /\ all[1] = s[1] /\ \A k \in 1..Len(t) : all[k + 1] = t[k]
      /\ \A k \in 2..Len(s) : all[Len(t) + k] = s[k]
  BY Zenon DEF Joined
<1>4. ASSUME NEW k \in 1..Len(all)
      PROVE  \/ k = 1
             \/ \E i \in 1..Len(t) : k = i + 1 /\ all[k] = t[i]
             \/ \E i \in 2..Len(s) : k = Len(t) + i /\ all[k] = s[i]
  <2>1. CASE k # 1 /\ k <= Len(t) + 1
    <3>1. k - 1 \in 1..Len(t) /\ k = (k - 1) + 1
      BY <1>3, <2>1
    <3> QED BY <1>J, <3>1
  <2>2. CASE k > Len(t) + 1
    <3>1. k - Len(t) \in 2..Len(s) /\ k = Len(t) + (k - Len(t))
      BY <1>3, <1>L, <2>2
    <3> QED BY <1>J, <3>1
  <2>3. k = 1 \/ (k # 1 /\ k <= Len(t) + 1) \/ k > Len(t) + 1
    BY <1>3, <1>L
  <2> QED BY <2>1, <2>2, <2>3, Zenon
<1>5. /\ \A i \in 1..Len(t) : t[i] # s[1]
      /\ \A i \in 2..Len(s) : i \in 1..Len(s) /\ s[i] # s[1]
      /\ \A i \in 2..Len(s), j \in 1..Len(t) : s[i] # t[j]
  <2>1. \A i \in 2..Len(s) : i \in 1..Len(s) /\ i # 1
    BY <1>3
  <2> QED BY <1>i, <1>3, <2>1, Zenon DEF Apart
<1>6. \A i, j \in 1..Len(all) : all[i] = all[j] => i = j
  <2> SUFFICES ASSUME NEW i \in 1..Len(all), NEW j \in 1..Len(all), all[i] = all[j]
               PROVE  i = j
    OBVIOUS
  <2>1. \/ i = 1 \/ \E a \in 1..Len(t) : i = a + 1 /\ all[i] = t[a]
        \/ \E a \in 2..Len(s) : i = Len(t) + a /\ all[i] = s[a]
    BY <1>4, Zenon
  <2>2. \/ j = 1 \/ \E b \in 1..Len(t) : j = b + 1 /\ all[j] = t[b]
        \/ \E b \in 2..Len(s) : j = Len(t) + b /\ all[j] = s[b]
    BY <1>4, Zenon
  <2>3. CASE i = 1
    <3>1. all[j] = s[1]
      BY <1>J, <2>3
    <3> QED BY <1>5, <2>2, <2>3, <3>1, Zenon
  <2>4. ASSUME NEW a \in 1..Len(t), i = a + 1, all[i] = t[a]
        PROVE  i = j
    <3>1. all[j] = t[a] /\ (j = 1 => all[j] = s[1])
      BY <1>J, <2>4
    <3>2. j # 1 /\ ~\E b \in 2..Len(s) : j = Len(t) + b /\ all[j] = s[b]
      BY <1>5, <3>1
    <3>3. PICK b \in 1..Len(t) : j = b + 1 /\ all[j] = t[b]
      BY <2>2, <3>2, Zenon
    <3>4. a = b
      BY <1>j, <3>1, <3>3
    <3> QED BY <2>4, <3>3, <3>4, Zenon
  <2>5. ASSUME NEW a \in 2..Len(s), i = Len(t) + a, all[i] = s[a]
        PROVE  i = j
    <3>1. all[j] = s[a] /\ (j = 1 => all[j] = s[1])
      BY <1>J, <2>5
    <3>2. j # 1 /\ ~\E b \in 1..Len(t) : j = b + 1 /\ all[j] = t[b]
      BY <1>5, <3>1
    <3>3. PICK b \in 2..Len(s) : j = Len(t) + b /\ all[j] = s[b]
      BY <2>2, <3>2, Zenon
    <3>4. a = b
      BY <1>i, <1>5, <3>1, <3>3
    <3> QED BY <2>5, <3>3, <3>4, Zenon
  <2> QED BY <2>1, <2>3, <2>4, <2>5, Zenon
<1>7. ASSUME NEW k \in 1..Len(all)
      PROVE  m.next[all[k]] = IF k = Len(all) THEN all[1] ELSE all[k + 1]
  <2>1. CASE k = 1
    <3>1. k # Len(all) /\ all[k + 1] = t[1]
      BY <1>3, <1>J, <1>L, <2>1
    <3> QED BY <1>J, <2>1, <3>1, Zenon
  <2>2. ASSUME NEW i \in 1..Len(t), k = i + 1, all[k] = t[i], i # Len(t)
        PROVE  m.next[all[k]] = IF k = Len(all) THEN all[1] ELSE all[k + 1]
    <3>1. i + 1 \in 1..Len(t) /\ k # Len(all)
      BY <1>3, <1>L, <2>2
    <3>2. all[k + 1] = t[i + 1]
      BY <1>J, <2>2, <3>1, Zenon
    <3>3. t[i] # s[1] /\ t[i] # t[Len(t)] /\ t[i] \in Nodes /\ l.next[t[i]] = t[i + 1]
      BY <1>2, <1>3, <1>5, <1>j, <2>2, Zenon
    <3> QED BY <2>2, <3>1, <3>2, <3>3, Zenon
  <2>3. CASE k = Len(t) + 1
    <3>1. all[k] = t[Len(t)]
      BY <1>3, <1>J, <2>3, Zenon
    <3>2. CASE Len(s) = 1
      <4>1. l.next[s[1]] = s[1]
        BY <1>1, <3>2, Zenon
      <4>2. k = Len(all)
        BY <1>3, <1>L, <2>3, <3>2
      <4> QED BY <1>J, <3>1, <4>1, <4>2, Zenon
    <3>3. CASE Len(s) # 1
      <4>0. Len(s) >= 2
        BY <1>3, <3>3, AtLeastTwo, Zenon
      <4>1. 2 \in 2..Len(s) /\ k # Len(all) /\ k + 1 = Len(t) + 2 /\ 1 + 1 = 2
        BY <1>3, <1>L, <2>3, <4>0
      <4>2. l.next[s[1]] = s[1 + 1]
        BY <1>1, <1>3, <3>3, Zenon
      <4>3. all[k + 1] = s[2]
        BY <1>J, <4>1, Zenon
      <4> QED BY <3>1, <4>1, <4>2, <4>3
    <3> QED BY <3>2, <3>3
  <2>4. ASSUME NEW i \in 2..Len(s), k = Len(t) + i, all[k] = s[i]
        PROVE  m.next[all[k]] = IF k = Len(all) THEN all[1] ELSE all[k + 1]
    <3>1. s[i] # s[1] /\ s[i] # t[Len(t)] /\ i \in 1..Len(s)
      BY <1>3, <1>5
    <3>0. s[i] \in Nodes
      BY <1>1, <3>1
    <3>2. m.next[s[i]] = l.next[s[i]]
      BY <3>0, <3>1, Zenon
    <3>3. CASE i = Len(s)
      <4>1. k = Len(all)
        BY <1>3, <1>L, <2>4, <3>3
      <4> QED BY <1>1, <1>J, <2>4, <3>2, <3>3, <4>1, Zenon
    <3>4. CASE i # Len(s)
      <4>1. k # Len(all) /\ i + 1 \in 2..Len(s) /\ k + 1 = Len(t) + (i + 1)
        BY <1>3, <1>L, <2>4, <3>4
      <4>2. all[k + 1] = s[i + 1] /\ l.next[s[i]] = s[i + 1]
        BY <1>1, <1>J, <3>1, <3>4, <4>1, Zenon
      <4> QED BY <2>4, <3>2, <4>1, <4>2, Zenon
    <3> QED BY <3>3, <3>4
  <2>5. \/ k = 1 \/ \E i \in 1..Len(t) : k = i + 1 /\ all[k] = t[i]
        \/ \E i \in 2..Len(s) : k = Len(t) + i /\ all[k] = s[i]
    BY <1>4, Zenon
  <2> QED BY <2>1, <2>2, <2>3, <2>4, <2>5, Zenon
<1>8. all # <<>>
  BY <1>3, <1>L
<1> QED BY <1>L, <1>6, <1>7, <1>8, Zenon DEF IsCircle

\* A circle begun at another of its entries is that entry's circle.
LEMMA FromEntry ==
  ASSUME NEW l \in Links(Nodes), NEW s, IsCircle(l, s), NEW n, Abstract!In(n, s)
  PROVE  /\ IsCircle(l, Abstract!From(s, n)) /\ Abstract!From(s, n)[1] = n
         /\ Circle(l, n) = Abstract!From(s, n)
<1>1. DOMAIN s = 1..Len(s)
  BY DEF IsCircle
<1>2. PICK i \in 1..Len(s) : s[i] = n
  BY <1>1, Zenon DEF Abstract!In
<1>3. IsCircle(l, Abstract!From(s, s[i])) /\ Abstract!From(s, s[i])[1] = s[i]
  BY <1>2, FromCircle, Zenon
<1>4. IsCircle(l, Abstract!From(s, n)) /\ Abstract!From(s, n)[1] = n
  BY <1>2, <1>3, Zenon
<1>5. Circle(l, n) = Abstract!From(s, n)
  <2>1. Circle(l, Abstract!From(s, n)[1]) = Abstract!From(s, n)
    BY <1>4, CircleIs, Zenon
  <2> QED BY <1>4, <2>1, Zenon
<1> QED BY <1>4, <1>5

\* The next pointers m after the circle of f was put after e.
Appended(l, e, f, m) ==
    m \in Links(Nodes) /\ m.next = [[l.next EXCEPT ![l.prev[f]] = l.next[e]] EXCEPT ![e] = f]

\* The circle of n is now all, when all contains it.
Entered(l, all, m, n) ==
    /\ \E s : IsCircle(m, s) /\ s[1] = n
    /\ Circle(m, n) = IF Abstract!In(n, all) THEN Abstract!From(all, n) ELSE Circle(l, n)

\* list_entry_append(): the circle of f, begun at f, is put after e.
LEMMA JoinIs ==
  ASSUME NEW l \in Links(Nodes), Agree(l, Nodes), Divided(l), NEW e \in Nodes, NEW f \in Nodes,
         ~Abstract!In(f, Circle(l, e)), NEW m, Appended(l, e, f, m),
         NEW all, Joined(all, Circle(l, e), Circle(l, f)), NEW n \in Nodes
  PROVE  Entered(l, all, m, n)
<1> USE DEF Entered
<1>0. m \in Links(Nodes) /\ m.next = [[l.next EXCEPT ![l.prev[f]] = l.next[e]] EXCEPT ![e] = f]
  BY DEF Appended
<1>1. /\ l.next \in [Nodes -> Nodes] /\ l.prev \in [Nodes -> Nodes]
      /\ \A x \in Nodes : l.prev[l.next[x]] = x /\ l.next[l.prev[x]] = x
  BY DEF Links, Agree
<1>2. PICK s : s = Circle(l, e)
  OBVIOUS
<1>3. PICK t : t = Circle(l, f)
  OBVIOUS
<1>s. IsCircle(l, s) /\ s[1] = e
  BY <1>2, DividedCircle, Zenon
<1>t. IsCircle(l, t) /\ t[1] = f
  BY <1>3, DividedCircle, Zenon
<1>4. /\ s \in Seq(Nodes) /\ t \in Seq(Nodes) /\ Len(s) \in Nat /\ Len(s) >= 1 /\ Len(t) \in Nat
      /\ Len(t) >= 1 /\ 1 \in 1..Len(s) /\ Len(t) \in 1..Len(t) /\ 1 \in 1..Len(t)
  BY <1>s, <1>t DEF IsCircle
<1>j. Joined(all, s, t)
  BY <1>2, <1>3
<1>5. /\ all \in Seq(Nodes) /\ Len(all) = Len(t) + Len(s) /\ all[1] = s[1]
      /\ \A k \in 1..Len(t) : all[k + 1] = t[k]
      /\ \A k \in 2..Len(s) : all[Len(t) + k] = s[k]
  BY <1>j, Zenon DEF Joined
<1>6. Apart(s, t)
  BY <1>2, <1>s, <1>t, CirclesApart, Zenon
<1>7. l.prev[f] = t[Len(t)] /\ t[Len(t)] \in Nodes
  <2>1. t[Len(t)] \in Nodes /\ l.next[t[Len(t)]] = f
    BY <1>t, <1>4 DEF IsCircle
  <2> QED BY <1>1, <2>1
<1>8. IsCircle(m, all)
  <2>1. m.next[s[1]] = t[1]
    BY <1>0, <1>1, <1>s, <1>t
  <2>2. t[Len(t)] # s[1]
    BY <1>4, <1>6, Zenon DEF Apart
  <2>3. m.next[t[Len(t)]] = l.next[s[1]]
    BY <1>0, <1>1, <1>s, <1>7, <2>2
  <2>4. \A x \in Nodes : x # s[1] /\ x # t[Len(t)] => m.next[x] = l.next[x]
    BY <1>0, <1>1, <1>s, <1>7
  <2>5. CircleFact(l, s)
    BY <1>s, CircleFacts
  <2>6. CircleFact(l, t)
    BY <1>t, CircleFacts
  <2> QED BY <1>j, <1>6, <2>1, <2>3, <2>4, <2>5, <2>6, JoinedCircle, Zenon
<1>D. DOMAIN all = 1..Len(all)
  BY <1>5
<1>9. CASE Abstract!In(n, all)
  <2>1. IsCircle(m, Abstract!From(all, n)) /\ Abstract!From(all, n)[1] = n
    BY <1>0, <1>8, <1>9, FromEntry, Zenon
  <2>2. Circle(m, n) = Abstract!From(all, n)
    BY <1>0, <1>8, <1>9, FromEntry, Zenon
  <2> QED BY <1>9, <2>1, <2>2, Zenon
<1>10. CASE ~Abstract!In(n, all)
  <2>1. PICK u : u = Circle(l, n)
    OBVIOUS
  <2>2. IsCircle(l, u) /\ u[1] = n
    BY <2>1, DividedCircle, Zenon
  <2>3. Len(u) \in Nat /\ 1 \in 1..Len(u) /\ \A i \in 1..Len(u) : u[i] \in Nodes
    BY <2>2 DEF IsCircle
  <2>5. \A i \in 1..Len(t) : t[i] # n
    <3> SUFFICES ASSUME NEW i \in 1..Len(t), t[i] = n PROVE FALSE
      OBVIOUS
    <3>1. i + 1 \in 1..Len(all) /\ all[i + 1] = n
      BY <1>4, <1>5
    <3> QED BY <1>10, <1>D, <3>1, Zenon DEF Abstract!In
  <2>6. \A i \in 1..Len(s) : s[i] # n
    <3> SUFFICES ASSUME NEW i \in 1..Len(s), s[i] = n PROVE FALSE
      OBVIOUS
    <3>2. CASE i = 1
      <4>1. 1 \in 1..Len(all) /\ all[1] = n
        BY <1>4, <1>5, <3>2
      <4> QED BY <1>10, <1>D, <4>1, Zenon DEF Abstract!In
    <3>3. CASE i # 1
      <4>1. Len(t) + i \in 1..Len(all) /\ all[Len(t) + i] = n
        BY <1>4, <1>5, <3>3
      <4> QED BY <1>10, <1>D, <4>1, Zenon DEF Abstract!In
    <3> QED BY <3>2, <3>3
  <2>7. ASSUME NEW i \in 1..Len(u) PROVE u[i] # e /\ u[i] # t[Len(t)]
    <3>1. 1 \in 1..Len(s) /\ Len(t) \in 1..Len(t)
      BY <1>4
    <3>2. ~Abstract!In(u[1], s) /\ ~Abstract!In(u[1], t)
      <4>1. DOMAIN s = 1..Len(s) /\ DOMAIN t = 1..Len(t)
        BY <1>4
      <4> QED BY <2>2, <2>5, <2>6, <4>1, Zenon DEF Abstract!In
    <3>3. IsCircle(l, s) /\ IsCircle(l, t) /\ IsCircle(l, u)
      BY <1>s, <1>t, <2>2
    <3>4. Apart(s, u) /\ Apart(t, u)
      BY <3>2, <3>3, CirclesApart, Zenon
    <3> QED BY <1>s, <3>1, <3>4, Zenon DEF Apart
  <2>8. \A i \in 1..Len(u) : m.next[u[i]] = l.next[u[i]]
    BY <1>0, <1>1, <1>7, <2>3, <2>7
  <2>9. IsCircle(m, u)
    BY <2>2, <2>8, CircleKept, Zenon
  <2>10. Circle(m, n) = u
    BY <1>0, <2>2, <2>9, CircleIs, Zenon
  <2> QED BY <1>10, <2>1, <2>2, <2>9, <2>10, Zenon
<1> QED BY <1>9, <1>10, Zenon

\* The next pointers that list_entry_remove() leaves.
LEMMA RemovedIs ==
  ASSUME NEW l \in Links(Nodes), Agree(l, Nodes), NEW e \in Nodes
  PROVE  Removed(l, e, list_entry_remove(l, e))
BY RemoveAgrees DEF Removed

\* What list_entry_remove() does to the rings.
LEMMA RemoveRings ==
  ASSUME links \in Links(Nodes), Agree(links, Nodes), Divided(links), NEW e \in Nodes,
         links' = list_entry_remove(links, e)
  PROVE  Divided(links') /\ Abstract!Leave(e)
<1>1. Removed(links, e, links')
  BY RemovedIs, Zenon
<1>2. ASSUME NEW n \in Nodes
      PROVE  /\ \E s : IsCircle(links', s) /\ s[1] = n
             /\ Circle(links', n) = IF n = e THEN <<e>> ELSE Abstract!Without(Circle(links, n), e)
  <2>1. Left(links, e, links', n)
    BY <1>1, LeaveIs, Zenon
  <2> QED BY <2>1, Zenon DEF Left
<1>3. Divided(links')
  BY <1>2, Zenon DEF Divided
<1>4. [n \in Nodes |-> Circle(links', n)] =
      [n \in Nodes |-> IF n = e THEN <<e>>
                       ELSE Abstract!Without([k \in Nodes |-> Circle(links, k)][n], e)]
  BY <1>2, Zenon
<1>5. Abstract!Leave(e)
  BY <1>4, Zenon DEF Abstract!Leave, Walk
<1> QED BY <1>3, <1>5

\* What an append does to the rings, given what it does to the next pointers.
LEMMA AppendRings ==
  ASSUME links \in Links(Nodes), Agree(links, Nodes), Divided(links),
         NEW e \in Nodes, NEW f \in Nodes, ~Abstract!In(f, Circle(links, e)),
         Appended(links, e, f, links')
  PROVE  Divided(links') /\ Abstract!Join(e, f)
<1>1. IsCircle(links, Circle(links, e)) /\ Circle(links, e)[1] = e /\ IsCircle(links, Circle(links, f))
  BY DividedCircle, Zenon
<1>2. PICK s : s = Circle(links, e)
  OBVIOUS
<1>3. PICK t : t = Circle(links, f)
  OBVIOUS
<1>4. s \in Seq(Nodes) /\ t \in Seq(Nodes) /\ Len(s) >= 1 /\ s[1] = e
  <2>1. IsCircle(links, s) /\ IsCircle(links, t) /\ s[1] = e
    BY <1>1, <1>2, <1>3, Zenon
  <2> QED BY <2>1 DEF IsCircle
<1>5. Joined(<<s[1]>> \o t \o Tail(s), s, t)
  BY <1>4, JoinedSequence
<1>6. PICK all : all = <<e>> \o Circle(links, f) \o Tail(Circle(links, e))
  OBVIOUS
<1>7. Joined(all, Circle(links, e), Circle(links, f))
  BY <1>2, <1>3, <1>4, <1>5, <1>6
<1>8. ASSUME NEW n \in Nodes
      PROVE  /\ \E u : IsCircle(links', u) /\ u[1] = n
             /\ Circle(links', n) = IF Abstract!In(n, all) THEN Abstract!From(all, n)
                                    ELSE Circle(links, n)
  <2>1. Entered(links, all, links', n)
    BY <1>7, JoinIs, Zenon
  <2> QED BY <2>1, Zenon DEF Entered
<1>9. Divided(links')
  BY <1>8, Zenon DEF Divided
<1>10. Abstract!Join(e, f)
  <2>1. [n \in Nodes |-> Circle(links', n)] =
        [n \in Nodes |-> IF Abstract!In(n, all) THEN Abstract!From(all, n)
                         ELSE [k \in Nodes |-> Circle(links, k)][n]]
    BY <1>8, Zenon
  <2>2. [k \in Nodes |-> Circle(links, k)][e] = Circle(links, e)
    OBVIOUS
  <2>3. [k \in Nodes |-> Circle(links, k)][f] = Circle(links, f)
    OBVIOUS
  <2>4. all = <<e>> \o [k \in Nodes |-> Circle(links, k)][f]
                   \o Tail([k \in Nodes |-> Circle(links, k)][e])
    BY <1>6, <2>2, <2>3, Zenon
  <2> QED BY <2>1, <2>2, <2>4, Zenon DEF Abstract!Join, Abstract!InRing, Walk
<1> QED BY <1>9, <1>10

\* Every node starts in a circle of its own.
LEMMA RingsInitial == Init => Divided(links) /\ Abstract!RingInit
<1> SUFFICES ASSUME Init PROVE Divided(links) /\ Abstract!RingInit
  OBVIOUS
<1>0. links \in Links(Nodes) /\ \A n \in Nodes : links.next[n] = n
  BY DEF Init, Single, Links
<1>1. ASSUME NEW n \in Nodes
      PROVE  IsCircle(links, <<n>>) /\ <<n>>[1] = n
  BY <1>0 DEF IsCircle
<1>2. Divided(links)
  BY <1>1 DEF Divided
<1>3. ASSUME NEW n \in Nodes PROVE Circle(links, n) = <<n>>
  <2>1. PICK s : s = <<n>>
    OBVIOUS
  <2>2. IsCircle(links, s) /\ s[1] = n
    BY <1>1, <2>1
  <2> QED BY <1>0, <2>1, <2>2, CircleIs, Zenon
<1>4. [n \in Nodes |-> Circle(links, n)] = [n \in Nodes |-> <<n>>]
  BY <1>3, Zenon
<1> QED BY <1>2, <1>4, Zenon DEF Abstract!RingInit, Walk

\* The index after one that is not the last.
LEMMA NextIndex == ASSUME NEW n \in Nat, NEW i \in 1..n, i # n PROVE i + 1 \in 1..n /\ i + 1 # i
OBVIOUS

\* An entry that is alone is in no circle but its own.
LEMMA AloneIs ==
  ASSUME links \in Links(Nodes), Agree(links, Nodes), Divided(links),
         NEW e \in Nodes, links.next[e] = e, NEW n \in Nodes, n # e
  PROVE  links.prev[e] = e /\ ~Abstract!In(e, Circle(links, n))
<1>1. links.prev[e] = e
  BY DEF Agree
<1>2. PICK s : s = Circle(links, n)
  OBVIOUS
<1>3. IsCircle(links, s) /\ s[1] = n
  BY <1>2, DividedCircle, Zenon
<1>4. /\ Len(s) \in Nat /\ Len(s) >= 1 /\ DOMAIN s = 1..Len(s)
      /\ \A i, j \in 1..Len(s) : s[i] = s[j] => i = j
      /\ \A i \in 1..Len(s) : links.next[s[i]] = IF i = Len(s) THEN s[1] ELSE s[i + 1]
  BY <1>3 DEF IsCircle
<1>5. ASSUME NEW i \in 1..Len(s), s[i] = e PROVE FALSE
  <2>1. CASE i = Len(s)
    BY <1>3, <1>4, <1>5, <2>1
  <2>2. CASE i # Len(s)
    <3>1. i + 1 \in 1..Len(s) /\ i + 1 # i
      BY <1>4, <2>2, NextIndex, Zenon
    <3> QED BY <1>4, <1>5, <2>2, <3>1
  <2> QED BY <2>1, <2>2
<1> QED BY <1>1, <1>2, <1>4, <1>5, Zenon DEF Abstract!In

RingInv == ListInv /\ Divided(links)

\* Each operation of list.c, and each step of a loop, is an operation on rings or leaves them.
LEMMA RingsStep ==
  ListInv /\ Divided(links) /\ [Next]_vars
    => Divided(links') /\ (Abstract!RingNext \/ UNCHANGED links)
<1> SUFFICES ASSUME ListInv, Divided(links), [Next]_vars
             PROVE  Divided(links') /\ (Abstract!RingNext \/ UNCHANGED links)
  OBVIOUS
<1>0. /\ links \in Links(Nodes) /\ Agree(links, Nodes)
      /\ Entries \subseteq Nodes /\ Sentinel \in Nodes /\ Sentinel \notin Entries
      /\ links.next[Sentinel] \in Nodes /\ links.prev[Sentinel] \in Nodes
  BY SentinelAssumption DEF ListInv, LinksAgree, Agree, Nodes, Links
<1>R. ASSUME NEW e \in Nodes, links' = list_entry_remove(links, e)
      PROVE  Divided(links') /\ Abstract!RingNext
  BY <1>0, <1>R, RemoveRings, Zenon DEF Abstract!RingNext
<1>A. ASSUME NEW h \in Nodes, NEW e \in Entries, h # e, Alone(e),
             links' = list_entry_append_single_element(links, h, e)
      PROVE  Divided(links') /\ Abstract!RingNext
  <2>1. links.next[e] = e /\ e \in Nodes
    BY <1>0, <1>A DEF Alone
  <2>2. /\ links' \in Links(Nodes)
        /\ links'.next = [[links.next EXCEPT ![e] = links.next[h]] EXCEPT ![h] = e]
    BY <1>0, <1>A, <2>1, AppendSingleAgrees
  <2>3. links.prev[e] = e /\ ~Abstract!In(e, Circle(links, h))
    BY <1>0, <1>A, <2>1, AloneIs, Zenon
  <2>4. Appended(links, h, e, links')
    BY <2>2, <2>3, Zenon DEF Appended
  <2>5. Divided(links') /\ Abstract!Join(h, e)
    BY <1>0, <2>1, <2>3, <2>4, AppendRings, Zenon
  <2> QED BY <2>1, <2>5, Zenon DEF Abstract!RingNext
<1>1. ASSUME NEW e \in Entries, AddFirst(e)
      PROVE  Divided(links') /\ Abstract!RingNext
  BY <1>0, <1>1, <1>A DEF AddFirst, list_add_first
<1>2. ASSUME NEW e \in Entries, AddLast(e)
      PROVE  Divided(links') /\ Abstract!RingNext
  <2>1. links.prev[Sentinel] # e
    BY <1>0, <1>2 DEF AddLast, Alone, Agree
  <2> QED BY <1>0, <1>2, <1>A, <2>1 DEF AddLast, list_add_last
<1>3. ASSUME NEW e \in Entries, EntryRemove(e)
      PROVE  Divided(links') /\ Abstract!RingNext
  BY <1>0, <1>3, <1>R DEF EntryRemove
<1>4. ASSUME NEW e \in Nodes, NEW f \in Nodes, Splice(e, f)
      PROVE  Divided(links') /\ Abstract!RingNext
  <2>1. Appended(links, e, f, links')
    BY <1>0, <1>4, AppendAgrees DEF Splice, Appended
  <2>3. ~Abstract!In(f, Circle(links, e))
    BY <1>4, Zenon DEF Splice, Walk, Abstract!In
  <2>4. Divided(links') /\ Abstract!Join(e, f)
    BY <1>0, <2>1, <2>3, AppendRings, Zenon
  <2> QED BY <2>4, Zenon DEF Abstract!RingNext
<1>5. CASE list_remove_first
  BY <1>0, <1>5, <1>R DEF list_remove_first
<1>6. CASE list_remove_last
  BY <1>0, <1>6, <1>R DEF list_remove_last
<1>7. CASE IterStart
  BY <1>7 DEF IterStart
<1>8. CASE IterStep
  <2>1. iter \in Nodes
    BY <1>8 DEF IterStep, ListInv
  <2>2. links' = links \/ links' = list_entry_remove(links, iter)
    BY <1>8, Zenon DEF IterStep, StepFrom
  <2> QED BY <2>1, <2>2, <1>R
<1>9. CASE UNCHANGED vars
  BY <1>9 DEF vars
<1> QED BY <1>1, <1>2, <1>3, <1>4, <1>5, <1>6, <1>7, <1>8, <1>9 DEF Next

\* list.c implements rings of entries: every operation on the pointers, for any
\* finite set of entries, takes entries out of rings or joins rings in order.
THEOREM ListIsRings == Spec => IsRings
<1>1. Init => RingInv /\ Abstract!RingInit
  BY ListInitial, RingsInitial DEF RingInv
<1>2. RingInv /\ [Next]_vars => RingInv' /\ [Abstract!RingNext]_([n \in Nodes |-> Walk(n)])
  BY ListStep, RingsStep DEF RingInv, Walk
<1> QED BY <1>1, <1>2, PTL DEF Spec, IsRings, Abstract!RingSpec

-----------------------------------------------------------------------------
\* The length of a concatenation.
LEMMA ConcatLength ==
  ASSUME NEW S, NEW a \in Seq(S), NEW b \in Seq(S)
  PROVE  a \o b \in Seq(S) /\ Len(a \o b) = Len(a) + Len(b)
OBVIOUS

\* Sequences are equal when their entries are.
LEMMA SameEntries ==
  ASSUME NEW S, NEW s \in Seq(S), NEW t \in Seq(S), Len(s) = Len(t), \A k \in 1..Len(s) : s[k] = t[k]
  PROVE  s = t
OBVIOUS

\* The part of a sequence from an entry to the end.
LEMMA RestIs ==
  ASSUME NEW S, NEW w \in Seq(S), NEW i \in 1..(Len(w) + 1)
  PROVE  /\ SubSeq(w, i, Len(w)) \in Seq(S) /\ Len(SubSeq(w, i, Len(w))) = Len(w) - i + 1
         /\ \A k \in 1..(Len(w) - i + 1) : SubSeq(w, i, Len(w))[k] = w[k + i - 1]
OBVIOUS

\* The part of a sequence before an entry.
LEMMA FrontIs ==
  ASSUME NEW S, NEW w \in Seq(S), NEW i \in 1..Len(w)
  PROVE  /\ SubSeq(w, 1, i - 1) \in Seq(S) /\ Len(SubSeq(w, 1, i - 1)) = i - 1
         /\ \A k \in 1..(i - 1) : SubSeq(w, 1, i - 1)[k] = w[k]
OBVIOUS

\* Sequence a is e followed by b.
Begins(a, e, b) == Len(a) = Len(b) + 1 /\ a[1] = e /\ \A k \in 1..Len(b) : a[k + 1] = b[k]

\* Where an index is, of the entries, the one after them and the rest.
LEMMA IndexCases ==
  ASSUME NEW k \in Nat, k >= 1, NEW n \in Nat
  PROVE  k \in 1..n \/ k = n + 1 \/ k > n + 1
OBVIOUS

\* The rest of a sequence is its first entry and the rest after that.
LEMMA SeenRest ==
  ASSUME NEW S, NEW s \in Seq(S), NEW e \in S, NEW a \in Seq(S), NEW b \in Seq(S), Begins(a, e, b)
  PROVE  s \o a = Append(s, e) \o b
<1>0. Len(a) = Len(b) + 1 /\ a[1] = e /\ \A k \in 1..Len(b) : a[k + 1] = b[k]
  BY Zenon DEF Begins
<1>1. s \o a \in Seq(S) /\ Append(s, e) \o b \in Seq(S) /\ Len(s \o a) = Len(Append(s, e) \o b)
  <2>1. s \o a \in Seq(S) /\ Len(s \o a) = Len(s) + Len(a)
    BY ConcatLength
  <2>2. Append(s, e) \in Seq(S) /\ Len(Append(s, e)) = Len(s) + 1
    OBVIOUS
  <2>3. Append(s, e) \o b \in Seq(S) /\ Len(Append(s, e) \o b) = Len(Append(s, e)) + Len(b)
    BY <2>2, ConcatLength
  <2>4. Len(s) \in Nat /\ Len(b) \in Nat
    OBVIOUS
  <2> QED BY <1>0, <2>1, <2>2, <2>3, <2>4
<1>2. ASSUME NEW k \in 1..Len(s \o a) PROVE (s \o a)[k] = (Append(s, e) \o b)[k]
  <2>1. CASE k \in 1..Len(s)
    BY <2>1
  <2>2. CASE k = Len(s) + 1
    BY <1>0, <2>2
  <2>3. CASE k > Len(s) + 1
    <3>1. PICK j : j = k - Len(s) - 1
      OBVIOUS
    <3>2. j \in 1..Len(b) /\ k = Len(s) + (j + 1) /\ k = Len(Append(s, e)) + j /\ j + 1 \in 1..Len(a)
      BY <1>0, <2>3, <3>1
    <3>3. (s \o a)[k] = a[j + 1]
      BY <3>2
    <3>4. (Append(s, e) \o b)[k] = b[j]
      BY <3>2
    <3> QED BY <1>0, <3>2, <3>3, <3>4
  <2>4. k \in Nat /\ k >= 1 /\ Len(s) \in Nat
    BY <1>1
  <2> QED BY <2>1, <2>2, <2>3, <2>4, IndexCases, Zenon
<1> QED BY <1>1, <1>2, SameEntries

\* An entry passed over moves from the rest of the list to what was seen.
LEMMA SeenOne ==
  ASSUME NEW S, NEW s \in Seq(S), NEW w \in Seq(S), NEW i \in 1..Len(w), i # Len(w)
  PROVE  s \o SubSeq(w, i, Len(w)) = Append(s, w[i]) \o SubSeq(w, i + 1, Len(w))
<1>1. PICK a : a = SubSeq(w, i, Len(w))
  OBVIOUS
<1>2. PICK b : b = SubSeq(w, i + 1, Len(w))
  OBVIOUS
<1>3. a \in Seq(S) /\ Len(a) = Len(w) - i + 1 /\ \A k \in 1..(Len(w) - i + 1) : a[k] = w[k + i - 1]
  BY <1>1
<1>4. b \in Seq(S) /\ Len(b) = Len(w) - i /\ \A k \in 1..(Len(w) - i) : b[k] = w[k + i]
  BY <1>2
<1>5. Len(a) = Len(b) + 1 /\ a[1] = w[i] /\ \A k \in 1..Len(b) : a[k + 1] = b[k]
  <2>0. Len(w) \in Nat
    OBVIOUS
  <2>1. /\ 1 \in 1..(Len(w) - i + 1) /\ 1 + i - 1 = i /\ Len(a) = Len(b) + 1
        /\ \A k \in 1..Len(b) : /\ k + 1 \in 1..(Len(w) - i + 1)
                                /\ (k + 1) + i - 1 = k + i /\ k \in 1..(Len(w) - i)
    BY <1>3, <1>4, <2>0
  <2>2. a[1] = w[i]
    BY <1>3, <2>1
  <2>3. ASSUME NEW k \in 1..Len(b) PROVE a[k + 1] = b[k]
    BY <1>3, <1>4, <2>1
  <2> QED BY <2>1, <2>2, <2>3
<1>6. w[i] \in S
  OBVIOUS
<1>7. s \o a = Append(s, w[i]) \o b
  <2>1. a \in Seq(S) /\ b \in Seq(S)
    BY <1>3, <1>4
  <2>2. Begins(a, w[i], b)
    BY <1>5, Zenon DEF Begins
  <2> QED BY <1>6, <2>1, <2>2, SeenRest
<1> QED BY <1>1, <1>2, <1>7

\* The second part of a concatenation.
LEMMA EndOfConcat ==
  ASSUME NEW S, NEW a \in Seq(S), NEW b \in Seq(S), Len(b) >= 1
  PROVE  /\ (a \o b)[Len(a) + 1] = b[1]
         /\ SubSeq(a \o b, Len(a) + 1, Len(a \o b)) = b
<1>1. (a \o b)[Len(a) + 1] = b[1]
  OBVIOUS
<1>2. PICK v : v = a \o b
  OBVIOUS
<1>3. /\ v \in Seq(S) /\ Len(v) = Len(a) + Len(b)
      /\ \A k \in 1..Len(b) : v[Len(a) + k] = b[k]
  BY <1>2
<1>4. PICK u : u = SubSeq(v, Len(a) + 1, Len(v))
  OBVIOUS
<1>5. u \in Seq(S) /\ Len(u) = Len(b) /\ \A k \in 1..Len(b) : u[k] = v[Len(a) + k]
  BY <1>3, <1>4
<1>6. u = b
  <2>1. \A k \in 1..Len(u) : u[k] = b[k]
    BY <1>3, <1>5, Zenon
  <2> QED BY <1>5, <2>1, SameEntries
<1> QED BY <1>1, <1>2, <1>4, <1>6

\* A list without entry i goes on at i with what followed it.
LEMMA WithoutOne ==
  ASSUME NEW S, NEW w \in Seq(S), NEW i \in 1..Len(w), i # Len(w)
  PROVE  LET v == SubSeq(w, 1, i - 1) \o SubSeq(w, i + 1, Len(w))
         IN  /\ v \in Seq(S) /\ i \in 1..Len(v) /\ v[i] = w[i + 1]
             /\ SubSeq(v, i, Len(v)) = SubSeq(w, i + 1, Len(w))
<1>1. PICK a : a = SubSeq(w, 1, i - 1)
  OBVIOUS
<1>2. PICK b : b = SubSeq(w, i + 1, Len(w))
  OBVIOUS
<1>3. PICK v : v = a \o b
  OBVIOUS
<1>4. a \in Seq(S) /\ Len(a) = i - 1
  BY <1>1
<1>5. b \in Seq(S) /\ Len(b) = Len(w) - i /\ b[1] = w[i + 1]
  BY <1>2
<1>6. /\ v \in Seq(S) /\ Len(v) = Len(w) - 1 /\ i \in 1..Len(v)
  <2>1. Len(w) \in Nat
    OBVIOUS
  <2>2. v \in Seq(S) /\ Len(v) = Len(a) + Len(b)
    <3>1. a \o b \in Seq(S) /\ Len(a \o b) = Len(a) + Len(b)
      BY <1>4, <1>5, ConcatLength
    <3> QED BY <1>3, <3>1
  <2>3. Len(a) = i - 1 /\ Len(b) = Len(w) - i
    BY <1>4, <1>5
  <2> QED BY <2>1, <2>2, <2>3
<1>7. v[i] = b[1] /\ SubSeq(v, i, Len(v)) = b
  <2>1. Len(a) + 1 = i /\ Len(b) >= 1
    BY <1>4, <1>5
  <2>2. (a \o b)[Len(a) + 1] = b[1] /\ SubSeq(a \o b, Len(a) + 1, Len(a \o b)) = b
    BY <1>4, <1>5, <2>1, EndOfConcat
  <2> QED BY <1>3, <2>1, <2>2
<1> QED BY <1>1, <1>2, <1>3, <1>5, <1>6, <1>7

\* The loop has seen the entries s of a list w that held all, and is at entry e.
SeenUpTo(w, e, s, all) ==
    \E i \in DOMAIN w : w[i] = e /\ all = s \o SubSeq(w, i, Len(w))

\* A loop in progress: _next is what follows its entry, and IterationExact holds.
IterInv == /\ RingInv
           /\ ~Outside => /\ iter # Sentinel /\ ahead = links.next[iter] /\ seen \in Seq(Nodes)
                          /\ SeenUpTo(Circle(links, Sentinel), iter, seen, todo)

\* Every entry of a circle is followed by the next one, unless the first follows it.
Follows(l, w) ==
    \A i \in 1..Len(w) : l.next[w[i]] # w[1] =>
        i # Len(w) /\ i + 1 \in 1..Len(w) /\ l.next[w[i]] = w[i + 1]

\* The entry that follows in a circle.
LEMMA FollowsIs == ASSUME NEW l, NEW w, IsCircle(l, w) PROVE Follows(l, w)
<1> SUFFICES ASSUME NEW i \in 1..Len(w), l.next[w[i]] # w[1]
             PROVE  i # Len(w) /\ i + 1 \in 1..Len(w) /\ l.next[w[i]] = w[i + 1]
  BY DEF Follows
<1>1. l.next[w[i]] = IF i = Len(w) THEN w[1] ELSE w[i + 1]
  BY Zenon DEF IsCircle
<1>2. Len(w) \in Nat
  BY DEF IsCircle
<1>3. i # Len(w) /\ l.next[w[i]] = w[i + 1]
  BY <1>1, Zenon
<1> QED BY <1>2, <1>3, NextIndex, Zenon

\* The body leaves the entry in the list.
LEMMA PassedOver ==
  ASSUME NEW l, NEW w, IsCircle(l, w), NEW e, NEW s \in Seq(Nodes), NEW all,
         SeenUpTo(w, e, s, all), l.next[e] # w[1]
  PROVE  SeenUpTo(w, l.next[e], Append(s, e), all)
<1>1. w \in Seq(Nodes) /\ DOMAIN w = 1..Len(w)
  BY DEF IsCircle
<1>2. PICK i \in 1..Len(w) : w[i] = e /\ all = s \o SubSeq(w, i, Len(w))
  BY <1>1, Zenon DEF SeenUpTo
<1>3. i # Len(w) /\ i + 1 \in 1..Len(w) /\ l.next[e] = w[i + 1]
  <2>1. i \in 1..Len(w) /\ w[i] = e /\ l.next[w[i]] # w[1]
    BY <1>2, Zenon
  <2>2. i # Len(w) /\ i + 1 \in 1..Len(w) /\ l.next[w[i]] = w[i + 1]
    <3>1. Follows(l, w)
      BY FollowsIs, Zenon
    <3> QED BY <2>1, <3>1, Zenon DEF Follows
  <2> QED BY <2>1, <2>2, Zenon
<1>4. s \o SubSeq(w, i, Len(w)) = Append(s, w[i]) \o SubSeq(w, i + 1, Len(w))
  BY <1>1, <1>2, <1>3, SeenOne
<1>5. all = Append(s, e) \o SubSeq(w, i + 1, Len(w))
  BY <1>2, <1>4
<1> QED BY <1>1, <1>3, <1>5 DEF SeenUpTo

\* The body takes the entry out of the list.
LEMMA TakenOut ==
  ASSUME NEW l, NEW w, IsCircle(l, w), NEW e, NEW s \in Seq(Nodes), NEW all,
         SeenUpTo(w, e, s, all), l.next[e] # w[1]
  PROVE  SeenUpTo(Abstract!Without(w, e), l.next[e], Append(s, e), all)
<1>0. w \in Seq(Nodes)
  BY DEF IsCircle
<1>1. DOMAIN w = 1..Len(w)
  BY <1>0
<1>i. \A i, j \in 1..Len(w) : w[i] = w[j] => i = j
  BY Zenon DEF IsCircle
<1>2. PICK i \in 1..Len(w) : w[i] = e /\ all = s \o SubSeq(w, i, Len(w))
  BY <1>1, Zenon DEF SeenUpTo
<1>3. i # Len(w) /\ i + 1 \in 1..Len(w) /\ l.next[e] = w[i + 1]
  <2>1. i \in 1..Len(w) /\ w[i] = e /\ l.next[w[i]] # w[1]
    BY <1>2, Zenon
  <2>2. i # Len(w) /\ i + 1 \in 1..Len(w) /\ l.next[w[i]] = w[i + 1]
    <3>1. Follows(l, w)
      BY FollowsIs, Zenon
    <3> QED BY <2>1, <3>1, Zenon DEF Follows
  <2> QED BY <2>1, <2>2, Zenon
<1>4. all = Append(s, e) \o SubSeq(w, i + 1, Len(w))
  <2>1. s \o SubSeq(w, i, Len(w)) = Append(s, w[i]) \o SubSeq(w, i + 1, Len(w))
    BY <1>0, <1>3, SeenOne
  <2> QED BY <1>2, <2>1
<1>5. Abstract!At(w, e) = i /\ Abstract!In(e, w)
  <2>1. \A j \in DOMAIN w : w[j] = e => j = i
    BY <1>1, <1>2, <1>i, Zenon
  <2>2. i \in DOMAIN w /\ w[i] = e
    BY <1>1, <1>2, Zenon
  <2> QED BY <2>1, <2>2, Zenon DEF Abstract!At, Abstract!In
<1>6. PICK v : v = SubSeq(w, 1, i - 1) \o SubSeq(w, i + 1, Len(w))
  OBVIOUS
<1>7. Abstract!Without(w, e) = v
  BY <1>5, <1>6, Zenon DEF Abstract!Without
<1>8. /\ v \in Seq(Nodes) /\ i \in 1..Len(v) /\ v[i] = w[i + 1]
      /\ SubSeq(v, i, Len(v)) = SubSeq(w, i + 1, Len(w))
  <2>1. LET x == SubSeq(w, 1, i - 1) \o SubSeq(w, i + 1, Len(w))
        IN  /\ x \in Seq(Nodes) /\ i \in 1..Len(x) /\ x[i] = w[i + 1]
            /\ SubSeq(x, i, Len(x)) = SubSeq(w, i + 1, Len(w))
    BY <1>0, <1>3, WithoutOne
  <2> QED BY <1>6, <2>1
<1>9. i \in DOMAIN v /\ v[i] = l.next[e]
  BY <1>3, <1>8
<1>10. all = Append(s, e) \o SubSeq(v, i, Len(v))
  BY <1>4, <1>8, Zenon
<1> QED BY <1>7, <1>9, <1>10, Zenon DEF SeenUpTo

\* The loop begins with the first entry of a list that is not empty.
LEMMA BegunAt ==
  ASSUME NEW l, NEW w, IsCircle(l, w), l.next[w[1]] # w[1]
  PROVE  /\ SeenUpTo(w, l.next[w[1]], <<>>, Tail(w))
<1>1. w \in Seq(Nodes) /\ DOMAIN w = 1..Len(w) /\ 1 \in 1..Len(w)
  BY DEF IsCircle
<1>2. 1 # Len(w) /\ 1 + 1 \in 1..Len(w) /\ l.next[w[1]] = w[1 + 1]
  <2>1. Follows(l, w)
    BY FollowsIs, Zenon
  <2> QED BY <1>1, <2>1, Zenon DEF Follows
<1>3. Tail(w) = <<>> \o SubSeq(w, 1 + 1, Len(w))
  <2>1. Len(w) >= 1
    BY <1>1, <1>2
  <2> QED BY <1>1, <2>1
<1> QED BY <1>1, <1>2, <1>3 DEF SeenUpTo

\* The loop of a list stays where it is while no operation of the list runs.
LEMMA IterInitial == Init => IterInv
BY ListInitial, RingsInitial DEF Init, IterInv, RingInv, Outside

\* Each step keeps the loop exact.
LEMMA IterStepExact == IterInv /\ [Next]_vars => IterInv'
<1> SUFFICES ASSUME IterInv, [Next]_vars PROVE IterInv'
  OBVIOUS
<1>0. ListInv /\ RingInv /\ RingInv' /\ links \in Links(Nodes) /\ Agree(links, Nodes) /\ Divided(links)
      /\ Sentinel \in Nodes
  BY ListStep, RingsStep DEF IterInv, RingInv, ListInv, LinksAgree, Agree, Nodes
<1>1. CASE Outside /\ UNCHANGED idle
  BY <1>0, <1>1 DEF IterInv, Outside, idle
<1>2. CASE UNCHANGED vars
  BY <1>0, <1>2 DEF IterInv, Outside, vars
<1>w. PICK w : w = Circle(links, Sentinel)
  OBVIOUS
<1>c. IsCircle(links, w) /\ w[1] = Sentinel
  BY <1>0, <1>w, DividedCircle, Zenon
<1>3. CASE IterStart
  <2>1. links.next[w[1]] # w[1]
    BY <1>3, <1>c, Zenon DEF IterStart, LIST_EMPTY
  <2>2. SeenUpTo(w, links.next[w[1]], <<>>, Tail(w))
    BY <1>c, <2>1, BegunAt, Zenon
  <2>3. /\ iter' = links.next[Sentinel] /\ ahead' = links.next[iter'] /\ seen' = <<>>
        /\ todo' = Tail(w) /\ links' = links
    BY <1>3, <1>w, Zenon DEF IterStart, Walk
  <2>4. SeenUpTo(Circle(links', Sentinel), iter', seen', todo')
    BY <1>c, <1>w, <2>2, <2>3, Zenon
  <2>5. iter' # Sentinel /\ ahead' = links'.next[iter']
    BY <1>c, <2>1, <2>3, Zenon
  <2>6. seen' \in Seq(Nodes)
    BY <2>3
  <2> QED BY <1>0, <2>4, <2>5, <2>6, Zenon DEF IterInv
<1>4. CASE IterStep
  <2>1. /\ iter # Sentinel /\ ahead = links.next[iter] /\ seen \in Seq(Nodes) /\ iter \in Nodes
        /\ SeenUpTo(w, iter, seen, todo)
    BY <1>4, <1>0, <1>w, Zenon DEF IterStep, IterInv, ListInv
  <2>2. PICK l \in {links, list_entry_remove(links, iter)} : StepFrom(ahead, iter, l)
    BY <1>4, Zenon DEF IterStep
  <2>3. /\ seen' = Append(seen, iter) /\ links' = l /\ todo' = todo
        /\ iter' = (IF ahead = Sentinel THEN NotIterating ELSE ahead)
        /\ ahead' = (IF ahead = Sentinel THEN NotIterating ELSE l.next[ahead])
    BY <2>2, Zenon DEF StepFrom
  <2>4. CASE ahead = Sentinel
    BY <1>0, <2>3, <2>4, Zenon DEF IterInv, Outside
  <2>5. CASE ahead # Sentinel
    <3>1. iter' = ahead /\ ahead' = links'.next[iter'] /\ iter' # Sentinel
      BY <2>3, <2>5, Zenon
    <3>2. seen' \in Seq(Nodes)
      BY <2>1, <2>3
    <3>3. links.next[iter] # w[1]
      BY <1>c, <2>1, <2>5, Zenon
    <3>4. CASE l = links
      <4>1. SeenUpTo(w, links.next[iter], Append(seen, iter), todo)
        BY <1>c, <2>1, <3>3, PassedOver, Zenon
      <4>2. SeenUpTo(Circle(links', Sentinel), iter', seen', todo')
        BY <1>w, <2>1, <2>3, <3>1, <3>4, <4>1, Zenon
      <4> QED BY <1>0, <3>1, <3>2, <4>2, Zenon DEF IterInv
    <3>5. CASE l = list_entry_remove(links, iter)
      <4>1. SeenUpTo(Abstract!Without(w, iter), links.next[iter], Append(seen, iter), todo)
        BY <1>c, <2>1, <3>3, TakenOut, Zenon
      <4>2. Removed(links, iter, links')
        BY <1>0, <2>1, <2>3, <3>5, RemovedIs, Zenon
      <4>3. Left(links, iter, links', Sentinel)
        BY <1>0, <2>1, <4>2, LeaveIs, Zenon
      <4>4. Circle(links', Sentinel) = Abstract!Without(w, iter)
        BY <1>w, <2>1, <4>3, Zenon DEF Left
      <4>5. SeenUpTo(Circle(links', Sentinel), iter', seen', todo')
        BY <2>1, <2>3, <3>1, <4>1, <4>4, Zenon
      <4> QED BY <1>0, <3>1, <3>2, <4>5, Zenon DEF IterInv
    <3> QED BY <2>2, <3>4, <3>5, Zenon
  <2> QED BY <2>4, <2>5
<1>5. ASSUME NEW e \in Entries, AddFirst(e) \/ AddLast(e) \/ EntryRemove(e) PROVE IterInv'
  BY <1>1, <1>5 DEF AddFirst, AddLast, EntryRemove
<1>6. ASSUME NEW e \in Nodes, NEW f \in Nodes, Splice(e, f) PROVE IterInv'
  BY <1>1, <1>6 DEF Splice
<1>7. CASE list_remove_first \/ list_remove_last
  BY <1>1, <1>7 DEF list_remove_first, list_remove_last
<1> QED BY <1>2, <1>3, <1>4, <1>5, <1>6, <1>7, Zenon DEF Next

\* A loop of LIST_ITER_SAFE_REMOVAL has always seen, in order, exactly the entries
\* before the one it is at, whatever its body removed, in a list of any length.
THEOREM LoopsExact == Spec => []IterationExact
<1>1. IterInv => IterationExact
  BY Zenon DEF IterInv, IterationExact, SeenUpTo, Walk
<1> QED BY <1>1, IterInitial, IterStepExact, PTL DEF Spec
=============================================================================
