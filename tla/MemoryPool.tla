----------------------------- MODULE MemoryPool -----------------------------
(***************************************************************************)
(* What an allocator promises: callers own chunks of memory that are       *)
(* disjoint from one another.                                              *)
(***************************************************************************)
CONSTANT Memory
VARIABLE chunks

Allocate(c) ==
  /\ c # {} /\ c \subseteq Memory
  /\ \A d \in chunks : c \cap d = {}
  /\ chunks' = chunks \cup {c}

Release(c) == c \in chunks /\ chunks' = chunks \ {c}

Resize(c, d) ==
  /\ c \in chunks /\ d # {} /\ d \subseteq Memory
  /\ \A e \in chunks \ {c} : d \cap e = {}
  /\ chunks' = (chunks \ {c}) \cup {d}

Init == chunks = {}
Next ==
  \/ \E c \in chunks' : Allocate(c)
  \/ \E c \in chunks : Release(c)
  \/ \E c \in chunks, d \in chunks' : Resize(c, d)
Spec == Init /\ [][Next]_chunks
=============================================================================
