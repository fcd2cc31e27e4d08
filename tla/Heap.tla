-------------------------------- MODULE Heap --------------------------------
(***************************************************************************)
(* The kernel heap, kernel/memory/heap_allocator.c: segments of memory     *)
(* divided into blocks with boundary tags, and a doubly linked free list   *)
(* inside the free blocks.  The memory is an array of words; a size is     *)
(* stored as twice its number of words plus the allocation bit.  Each call *)
(* runs under global_heap_lock with interrupts disabled, so it is a step;  *)
(* krealloc() takes the lock twice, so it is two.                          *)
(***************************************************************************)
EXTENDS Integers, Sequences, SequencesExt, FiniteSets, FiniteSetsExt, TLC

CONSTANTS Words,         \* the words vmem_request_free_pages() can hand out
          SegmentSize,   \* SEGMENT_SIZE, in words
          ChunkSize,     \* the multiple a segment is rounded up to
          Alignment,     \* ALIGNMENT, in words
          Sizes,         \* the sizes callers ask for
          MaxBlocks,     \* bound: blocks that callers own at a time
          TracksFreed    \* whether the history of freed blocks is kept

NULL  == 0
MAGIC == -1
DEAD  == -2

\* sizeof(start_tag_t), sizeof(end_tag_t) and sizeof(free_list_t), in words.
StartTag  == 2
EndTag    == 1
FreeEntry == 3
TagsSize  == StartTag + EndTag
\* sizeof(heap_segment_t), and with the two boundary tags.
SegmentHead == 3
HeaderSize  == SegmentHead + 2

VARIABLES mem,        \* the memory, a word at a time
          free_list,  \* address of the first entry
          segments,   \* base and size of each segment
          owned,      \* history: block |-> size that was asked for
          moving,     \* blocks whose data krealloc() has copied and will free
          freed,      \* history: blocks that were freed and not handed out since
          panic

vars == <<mem, free_list, segments, owned, moving, freed, panic>>

AlignBy(num, n) == ((num + n - 1) \div n) * n
Tag(size, alloc) == 2 * size + (IF alloc THEN 1 ELSE 0)
SizeOf(word)     == word \div 2
IsAlloc(word)    == word % 2 = 1

\* Fields of a free list entry, and the tags of the block of an entry.
Prev(m, e)    == m[e]
NextOf(m, e)  == m[e + 1]
EntrySize(m, e) == m[e + 2]
StartOf(e)    == e - StartTag
EndOf(m, s)   == s + SizeOf(m[s]) - EndTag

\* The state of the heap as the functions below pass it on.
Heap(m, f, s) == [mem |-> m, free |-> f, segs |-> s]
Write(h, words) == [h EXCEPT !.mem = words @@ @]

\* The entries of the free list, up to n of them.
RECURSIVE Entries(_, _, _)
Entries(m, e, n) == IF e = NULL \/ n = 0 THEN <<>> ELSE <<e>> \o Entries(m, NextOf(m, e), n - 1)
FreeList(h) == Entries(h.mem, h.free, Words)

\* VERIFY_FREE_BLOCK() and verify_free_list().
FreeBlockOk(m, s) ==
  /\ ~IsAlloc(m[s]) /\ m[s] = m[EndOf(m, s)]
  /\ m[s + 1] = DEAD
FreeListOk(h) ==
  \A e \in ToSet(FreeList(h)) :
    /\ FreeBlockOk(h.mem, StartOf(e))
    /\ NextOf(h.mem, e) # NULL => Prev(h.mem, NextOf(h.mem, e)) = e

-----------------------------------------------------------------------------
unlink_entry(h, e) ==
  LET n == NextOf(h.mem, e)
      p == Prev(h.mem, e)
  IN [Write(h, (IF n = NULL THEN <<>> ELSE n :> p) @@ (IF p = NULL THEN <<>> ELSE (p + 1) :> n))
        EXCEPT !.free = IF e = @ THEN n ELSE @]

replace_entry(h, old, new) ==
  LET n == NextOf(h.mem, old)
      p == Prev(h.mem, old)
  IN [Write(h, (new :> p) @@ ((new + 1) :> n)
               @@ (IF p = NULL THEN <<>> ELSE (p + 1) :> new)
               @@ (IF n = NULL THEN <<>> ELSE n :> new))
        EXCEPT !.free = IF old = @ THEN new ELSE @]

\* The tags of a block of some size at s, and its list entry's size.
Tags(s, size, alloc) == (s :> Tag(size, alloc)) @@ ((s + size - EndTag) :> Tag(size, alloc))

\* alloc_heap_segment() and create_entry_for_segment(), put in front of the
\* free list; the segment itself is appended.  The next free words are taken.
SegmentFor(total) == AlignBy(Max({total + HeaderSize, SegmentSize}), ChunkSize)
NextBase(segs) == IF segs = <<>> THEN 1 ELSE Last(segs).base + Last(segs).size
CanGrow(h, total) == NextBase(h.segs) + SegmentFor(total) - 1 <= Words

Grow(h, total) ==
  LET base  == NextBase(h.segs)
      size  == SegmentFor(total)
      start == base + SegmentHead + 1
      entry == start + StartTag
      space == size - HeaderSize
  IN Heap(((base + SegmentHead) :> Tag(0, TRUE)) @@ ((base + size - 1) :> Tag(0, TRUE))
            @@ Tags(start, space, FALSE) @@ ((start + 1) :> DEAD)
            @@ (entry :> NULL) @@ ((entry + 1) :> h.free) @@ ((entry + 2) :> space)
            @@ (IF h.free = NULL THEN <<>> ELSE h.free :> entry) @@ h.mem,
          entry, Append(h.segs, [base |-> base, size |-> size]))

\* The block a request needs: its tags, and room for a free list entry.
TotalFor(size) == AlignBy(Max({size, FreeEntry}) + TagsSize, Alignment)

FitEntries(h, total) == SelectSeq(FreeList(h), LAMBDA e : EntrySize(h.mem, e) >= total)

Splits(left) == left > TagsSize + FreeEntry

\* The body of internal_alloc()'s search for the entry it found, and the
\* memset() of kalloc(); what callers write later makes no difference.
TakeEntry(h, e, total, size) ==
  LET s    == StartOf(e)
      left == EntrySize(h.mem, e) - total
      new  == s + total
      h1   == IF Splits(left)
              THEN replace_entry(Write(h, Tags(new, left, FALSE) @@ ((new + 1) :> DEAD)
                                          @@ Tags(s, total, FALSE)
                                          @@ ((new + StartTag + 2) :> left)), e, new + StartTag)
              ELSE unlink_entry(h, e)
  IN Write(h1, Tags(s, SizeOf(h1.mem[s]), TRUE) @@ ((s + 1) :> MAGIC)
               @@ [w \in e .. e + size - 1 |-> 0])

\* internal_alloc(): grow an empty heap, take the first block that fits, and
\* if there is none grow and search again.
Grown(h, total) ==
  IF h.segs # <<>> /\ FitEntries(h, total) # <<>> THEN h
  ELSE IF CanGrow(h, total) THEN Grow(h, total) ELSE h

InternalAlloc(h, size) ==
  LET h1   == Grown(h, TotalFor(size))
      fits == FitEntries(h1, TotalFor(size))
  IN IF size = 0 THEN [ptr |-> NULL, heap |-> h]
     ELSE IF fits = <<>> THEN [ptr |-> NULL, heap |-> h1]
     ELSE [ptr |-> Head(fits), heap |-> TakeEntry(h1, Head(fits), TotalFor(size), size)]

-----------------------------------------------------------------------------
\* kfree() after the tests of the magic number: toggle the allocation bits,
\* then merge with the previous block (and the next), with the next one, or
\* insert an entry at the front.  Yields the heap and the tags verified last.
Toggle(word) == IF IsAlloc(word) THEN word - 1 ELSE word + 1

\* A bug: the next block is not merged when the previous one is.
FreeBlockKeepNext(h0, ptr) ==
  LET s  == StartOf(ptr)
      e  == EndOf(h0.mem, s)
      h  == Write(h0, (s :> Toggle(h0.mem[s])) @@ (e :> Toggle(h0.mem[e])))
      prevStart == s - SizeOf(h.mem[s - EndTag])
      new == h.mem[prevStart] + h.mem[s]
  IN IF ~IsAlloc(h.mem[s - EndTag])
     THEN [start |-> prevStart, end |-> e,
           heap |-> Write(h, (prevStart :> new) @@ (e :> new) @@ ((prevStart + 1) :> DEAD)
                             @@ ((prevStart + StartTag + 2) :> SizeOf(new)))]
     ELSE [start |-> s, end |-> e,
           heap |-> [Write(h, ((s + 1) :> DEAD) @@ (ptr :> NULL) @@ ((ptr + 1) :> h.free)
                              @@ ((ptr + 2) :> SizeOf(h.mem[s]))
                              @@ (IF h.free = NULL THEN <<>> ELSE h.free :> ptr))
                       EXCEPT !.free = ptr]]

FreeBlock(h0, ptr) ==
  LET s  == StartOf(ptr)
      e  == EndOf(h0.mem, s)
      h  == Write(h0, (s :> Toggle(h0.mem[s])) @@ (e :> Toggle(h0.mem[e])))
      nextStart == e + 1
      nextEnd   == EndOf(h.mem, nextStart)
      nextEntry == nextStart + StartTag
      prevEnd   == s - EndTag
      nextFree  == ~IsAlloc(h.mem[nextStart])
  IN IF ~IsAlloc(h.mem[prevEnd])
     THEN LET prevStart == prevEnd + 1 - SizeOf(h.mem[prevEnd])
              new == h.mem[prevStart] + h.mem[s] + (IF nextFree THEN h.mem[nextStart] ELSE 0)
              end == IF nextFree THEN nextEnd ELSE e
              h1  == IF nextFree THEN unlink_entry(h, nextEntry) ELSE h
          IN [start |-> prevStart, end |-> end,
              heap |-> Write(h1, (prevStart :> new) @@ (end :> new) @@ ((prevStart + 1) :> DEAD)
                                 @@ ((prevStart + StartTag + 2) :> SizeOf(new)))]
     ELSE IF nextFree
     THEN LET new == h.mem[s] + h.mem[nextStart]
          IN [start |-> s, end |-> nextEnd,
              heap |-> replace_entry(Write(h, (s :> new) @@ (nextEnd :> new) @@ ((s + 1) :> DEAD)
                                              @@ ((ptr + 2) :> SizeOf(new))), nextEntry, ptr)]
     ELSE [start |-> s, end |-> e,
           heap |-> [Write(h, ((s + 1) :> DEAD) @@ (ptr :> NULL) @@ ((ptr + 1) :> h.free)
                              @@ ((ptr + 2) :> SizeOf(h.mem[s]))
                              @@ (IF h.free = NULL THEN <<>> ELSE h.free :> ptr))
                       EXCEPT !.free = ptr]]

-----------------------------------------------------------------------------
Init ==
  /\ mem = [w \in 1 .. Words |-> 0]
  /\ free_list = NULL /\ segments = <<>>
  /\ owned = <<>> /\ moving = {} /\ freed = {}
  /\ panic = "none"

Now == Heap(mem, free_list, segments)
Store(h) == mem' = h.mem /\ free_list' = h.free /\ segments' = h.segs
Checked(h) == panic' = IF FreeListOk(h) THEN "none" ELSE "ill-formatted heap"

Drop(ptr) == [p \in DOMAIN owned \ {ptr} |-> owned[p]]

\* The freed blocks whose start tag is not part of a block handed out since.
StillFreed(ptr) == freed \ (ptr .. EndOf(mem', StartOf(ptr)) + StartTag)

kalloc(size) ==
  /\ panic = "none" /\ Cardinality(DOMAIN owned) < MaxBlocks
  /\ LET r == InternalAlloc(Now, size)
     IN /\ Store(r.heap) /\ Checked(r.heap)
        /\ owned' = IF r.ptr = NULL THEN owned ELSE (r.ptr :> size) @@ owned
        /\ freed' = IF r.ptr = NULL THEN freed ELSE StillFreed(r.ptr)
  /\ UNCHANGED moving

\* kfree() of any pointer: the tests of the magic number, then the merge and
\* the final verification.
Freeing(ptr) ==
  LET r == FreeBlock(Now, ptr)
  IN IF mem[StartOf(ptr) + 1] = DEAD
     THEN panic' = "freed twice" /\ UNCHANGED <<mem, free_list, segments>>
     ELSE IF mem[StartOf(ptr) + 1] # MAGIC
     THEN panic' = "invalid pointer" /\ UNCHANGED <<mem, free_list, segments>>
     ELSE /\ Store(r.heap)
          /\ panic' = IF /\ FreeBlockOk(r.heap.mem, r.start)
                         /\ r.heap.mem[r.start] = r.heap.mem[r.end] /\ FreeListOk(r.heap)
                      THEN "none" ELSE "ill-formatted heap"

kfree(ptr) ==
  /\ panic = "none" /\ ptr \in DOMAIN owned /\ ptr \notin moving
  /\ Freeing(ptr)
  /\ owned' = Drop(ptr)
  /\ freed' = IF TracksFreed THEN freed \cup {ptr} ELSE {}
  /\ UNCHANGED moving

\* A bug: the block is taken to reach to the end of its neighbour.
CapacityOfTwo(ptr) == EndOf(mem, EndOf(mem, StartOf(ptr)) + 1) - ptr

\* krealloc() of a block that is large enough, and of one that has to grow:
\* with a new size of 0 it is kfree(), without a block it is kalloc() without
\* the memset().  To grow it takes a new block, copies the data,
\* and with the lock taken anew frees the old block, also when there was no
\* memory.
Capacity(ptr) == EndOf(mem, StartOf(ptr)) - ptr

kreallocInPlace(ptr, size) ==
  /\ panic = "none" /\ ptr \in DOMAIN owned \ moving
  /\ size > 0 /\ size <= Capacity(ptr)
  /\ owned' = [owned EXCEPT ![ptr] = size]
  /\ UNCHANGED <<mem, free_list, segments, moving, freed, panic>>

kreallocCopy(ptr, size) ==
  /\ panic = "none" /\ ptr \in DOMAIN owned \ moving
  /\ size > Capacity(ptr)
  /\ LET r == InternalAlloc(Now, size)
     IN /\ Store(r.heap) /\ Checked(r.heap)
        /\ owned' = IF r.ptr = NULL THEN owned ELSE (r.ptr :> size) @@ owned
        /\ freed' = IF r.ptr = NULL THEN freed ELSE StillFreed(r.ptr)
  /\ moving' = moving \cup {ptr}

kreallocFree(ptr) ==
  /\ panic = "none" /\ ptr \in moving
  /\ Freeing(ptr)
  /\ owned' = Drop(ptr) /\ moving' = moving \ {ptr}
  /\ freed' = IF TracksFreed THEN freed \cup {ptr} ELSE {}

Next ==
  \/ \E size \in Sizes : kalloc(size)
  \/ \E ptr \in DOMAIN owned : kfree(ptr)
  \/ \E ptr \in DOMAIN owned, size \in Sizes : kreallocInPlace(ptr, size)
  \/ \E ptr \in DOMAIN owned, size \in Sizes : kreallocCopy(ptr, size)
  \/ \E ptr \in moving : kreallocFree(ptr)

Spec == Init /\ [][Next]_vars

-----------------------------------------------------------------------------
\* The blocks of a segment, from the first tag to the boundary at its end.
RECURSIVE BlocksFrom(_, _)
BlocksFrom(s, limit) ==
  IF s >= limit \/ SizeOf(mem[s]) = 0 THEN {}
  ELSE {s} \cup BlocksFrom(s + SizeOf(mem[s]), limit)
SegmentBlocks(seg) == BlocksFrom(seg.base + SegmentHead + 1, seg.base + seg.size - 1)
Blocks == UNION {SegmentBlocks(seg) : seg \in ToSet(segments)}
FreeBlocks == {s \in Blocks : ~IsAlloc(mem[s])}

(* The heap's own verification never fails for callers that free what they  *)
(* own once: the blocks of every segment tile it with matching tags, the    *)
(* allocated ones are exactly those that callers own, and the free list     *)
(* holds exactly the free ones, each once, with their sizes.  No sequence   *)
(* of splits and merges in kalloc(), krealloc() and kfree() loses memory or *)
(* hands it out twice.                                                      *)
TagsAndListAgree ==
  /\ panic = "none"
  /\ \A seg \in ToSet(segments) :
       FoldSet(LAMBDA s, n : n + SizeOf(mem[s]), 0, SegmentBlocks(seg))
         = seg.size - HeaderSize
  /\ \A s \in Blocks : mem[EndOf(mem, s)] = mem[s]
  /\ {s + StartTag : s \in Blocks \ FreeBlocks} = DOMAIN owned
  /\ LET list == Entries(mem, free_list, Words)
     IN /\ ToSet(list) = {s + StartTag : s \in FreeBlocks}
        /\ Len(list) = Cardinality(FreeBlocks)
        /\ \A e \in ToSet(list) : EntrySize(mem, e) = SizeOf(mem[StartOf(e)])

(* Two free blocks never touch: once everything is freed each segment is    *)
(* one block again, whatever the order of the calls was.                    *)
Coalesced ==
  panic = "none" => \A s \in FreeBlocks : s + SizeOf(mem[s]) \notin FreeBlocks

(* A block that was freed carries the mark that lets kfree() detect a       *)
(* second kfree() of it, as long as its memory is free.                     *)
FreedIsMarked == \A ptr \in freed : mem[StartOf(ptr) + 1] = DEAD

(* What callers own never overlaps and has the size they asked for: the     *)
(* heap implements the pool of MemoryPool.                                  *)
Pool == INSTANCE MemoryPool WITH
          Memory <- 1 .. Words,
          chunks <- {p .. p + owned[p] - 1 : p \in DOMAIN owned}
IsMemoryPool == Pool!Spec
=============================================================================
