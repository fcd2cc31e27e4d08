----------------------------- MODULE PageFrames -----------------------------
(***************************************************************************)
(* The page frame allocator, kernel/memory/page_frame_allocator.c: a       *)
(* bitmap with one bit per page frame, searched a word at a time from      *)
(* first_available_frame_idx on.  The widths of the code are constants     *)
(* here: 8 pages to a byte, 4 bytes to a word, 65536 bytes of bitmap and   *)
(* 256 values of the unsigned char that holds an index.  Each function     *)
(* runs with interrupts disabled by its spinlock, so it is one step.       *)
(***************************************************************************)
EXTENDS Integers, FiniteSets, FiniteSetsExt, Sequences, SequencesExt

CONSTANTS PagesPerByte, BytesPerWord, BitmapBytes,
          IdxRange,  \* the values of an unsigned char
          BootMaps,  \* memory maps: segments, kernel and initrd as <<first page, pages>>
          MaxRun     \* bound: the largest n of page_frame_alloc_pages()

ASSUME PageFramesAssumption ==
  /\ {PagesPerByte, BytesPerWord, BitmapBytes, IdxRange, MaxRun} \subseteq Nat \ {0}
  /\ BitmapBytes % BytesPerWord = 0

VARIABLES boot,                       \* the struct boot_data of this boot
          available,                  \* the bits of memory_bitmap that are 1
          first_available_frame_idx,
          n_available_frames,
          lock,                       \* page_alloc_lock.flag
          owned,                      \* history: the blocks callers own
          panic                       \* the kpanic() or kassert() that stopped the kernel

frameVars == <<boot, available, first_available_frame_idx, n_available_frames, lock, owned,
               panic>>

Bytes == 0 .. BitmapBytes - 1
BitmapIdx(p) == p \div PagesPerByte
BytePages(i) == i * PagesPerByte .. (i + 1) * PagesPerByte - 1
WordPages(i) == i * PagesPerByte .. (i + BytesPerWord) * PagesPerByte - 1

\* The unsigned char that check_page_available(), mark_page() and
\* mark_8n_pages() keep an index in, and the page whose bit they reach.
CharIdx(p)  == BitmapIdx(p) % IdxRange
CharPage(p) == CharIdx(p) * PagesPerByte + (p % PagesPerByte)

\* A block is a single page (n = 0) or n bytes of the bitmap.
Frames(b) == IF b.n = 0 THEN {b.page} ELSE b.page .. b.page + b.n * PagesPerByte - 1
OwnedFrames == UNION {Frames(b) : b \in owned}

-----------------------------------------------------------------------------
\* init_mark_segment(): the pages it marks, first the rest of the byte the
\* segment starts in, then whole bytes, then the start of the last byte, each
\* as long as page_count lasts.
SegmentPages(seg) ==
  LET startBit  == seg[1] % PagesPerByte
      head == IF startBit = 0 THEN {}
              ELSE seg[1] .. seg[1] + Min({PagesPerByte - startBit, seg[2]}) - 1
      startIdx == BitmapIdx(seg[1]) + (IF startBit = 0 THEN 0 ELSE 1)
      endIdx   == BitmapIdx(seg[1] + seg[2])
      endBit   == (seg[1] + seg[2]) % PagesPerByte
      body     == UNION {BytePages(i) : i \in startIdx .. endIdx - 1}
      left     == seg[2] - Cardinality(head) - Cardinality(body)
      tail     == endIdx * PagesPerByte .. endIdx * PagesPerByte + Min({endBit, left}) - 1
  IN head \cup body \cup tail

\* page_frame_manager_init(): what init_mark_segment() adds for the segments
\* and takes away for the kernel and the initrd.  The counter counts every
\* page marked, whatever its bit was.
FrameInit ==
  \E bm \in BootMaps :
    /\ boot = bm
    /\ available = UNION {SegmentPages(s) : s \in Range(bm.segments)}
                     \ (SegmentPages(bm.kernel) \cup SegmentPages(bm.initrd))
    /\ first_available_frame_idx = 0
    /\ n_available_frames = FoldSeq(LAMBDA s, n : n + Cardinality(SegmentPages(s)), 0, bm.segments)
                              - Cardinality(SegmentPages(bm.kernel))
                              - Cardinality(SegmentPages(bm.initrd))
    /\ lock = FALSE /\ owned = {} /\ panic = "none"

-----------------------------------------------------------------------------
RoundDown(i) == i - (i % BytesPerWord)

\* The words from index i on, as the searches visit them, that hold a free page.
FreeWords(i) ==
  {w \in Bytes : /\ w % BytesPerWord = 0 /\ w >= RoundDown(i)
                 /\ WordPages(w) \cap available # {}}

\* Whether memory_bitmap[i] is 0xff; beyond the end of the bitmap the memory
\* holds anything.
FullByte(i, beyond) == IF i \in Bytes THEN BytePages(i) \subseteq available ELSE beyond

\* The words where find_available_8n_pages(n) finds a run.  The masks of the
\* tests for the bytes 1 to 3 of a word bind weaker than the shifts, so all of
\* them test byte 0 and a run starts in byte 0 of a word or nowhere.
RunWords(n, beyond) ==
  {w \in FreeWords(first_available_frame_idx) :
     /\ FullByte(w, beyond)
     /\ \A j \in 0 .. n - 1 : FullByte(w + j, beyond)}

\* mark_page() and mark_8n_pages(): the pages whose bits change.
MarkedPages(b) ==
  IF b.n = 0 THEN {CharPage(b.page)}
  ELSE UNION {BytePages(CharIdx(b.page) + j) : j \in 0 .. b.n - 1} \cap (0 .. BitmapBytes * PagesPerByte - 1)

Size(b) == IF b.n = 0 THEN 1 ELSE b.n * PagesPerByte

\* The kassert() of spinlock_lock(): nobody holds the lock.
Locked(reason) ==
  /\ panic = "none" /\ lock
  /\ panic' = reason
  /\ UNCHANGED <<boot, available, first_available_frame_idx, n_available_frames, lock, owned>>

Lockable == panic = "none" /\ ~lock

Take(b) ==
  /\ available' = available \ MarkedPages(b)
  /\ n_available_frames' = n_available_frames - Size(b)
  /\ owned' = owned \cup {b}
  /\ UNCHANGED <<boot, lock, panic>>

\* The early return: 0 to the caller, and the lock stays taken.
ReturnZero ==
  /\ lock' = TRUE
  /\ UNCHANGED <<boot, available, n_available_frames, owned, panic>>

\* page_frame_alloc_page(): the first free page of the first word that has
\* one.  Page 0 stands for failure.
AllocPage ==
  /\ Lockable
  /\ LET words == FreeWords(first_available_frame_idx)
         i     == Min(words)
         page  == IF words = {} THEN 0 ELSE Min(WordPages(i) \cap available)
     IN /\ first_available_frame_idx' = IF words = {} THEN first_available_frame_idx ELSE i
        /\ IF page = 0 THEN ReturnZero ELSE Take([page |-> page, n |-> 0])

\* page_frame_alloc_pages(): n bytes of the bitmap that are all free.
AllocPages(n) ==
  /\ Lockable
  /\ \E beyond \in BOOLEAN :
       LET words == FreeWords(first_available_frame_idx)
           runs  == RunWords(n, beyond)
           page  == IF runs = {} THEN 0 ELSE Min(runs) * PagesPerByte
       IN /\ first_available_frame_idx' =
               IF words = {} THEN first_available_frame_idx ELSE Min(words)
          /\ IF page = 0 THEN ReturnZero ELSE Take([page |-> page, n |-> n])

\* A bug: freeing leaves the start of the search where it is.
FreeSearchKept(b) ==
  /\ Lockable
  /\ available' = available \cup MarkedPages(b)
  /\ n_available_frames' = n_available_frames + Size(b)
  /\ owned' = owned \ {b}
  /\ UNCHANGED <<boot, first_available_frame_idx, lock, panic>>

\* page_frame_free() of a block its caller owns; only the first page is
\* tested for a double free.
Free(b) ==
  /\ Lockable
  /\ IF CharPage(b.page) \in available
     THEN /\ panic' = "double free"
          /\ lock' = TRUE
          /\ UNCHANGED <<boot, available, first_available_frame_idx, n_available_frames, owned>>
     ELSE /\ available' = available \cup MarkedPages(b)
          /\ n_available_frames' = n_available_frames + Size(b)
          /\ first_available_frame_idx' = Min({first_available_frame_idx, CharIdx(b.page)})
          /\ owned' = owned \ {b}
          /\ UNCHANGED <<boot, lock, panic>>

\* The next call after one that returned with the lock taken.
CallLocked == Locked("lock taken twice")

-----------------------------------------------------------------------------
\* What the memory map leaves to the allocator.
Pages(seg) == seg[1] .. seg[1] + seg[2] - 1
Usable == UNION {Pages(s) : s \in Range(boot.segments)} \ (Pages(boot.kernel) \cup Pages(boot.initrd))

(* Every usable frame is free or owned by one caller, never both, never by  *)
(* two, and no other frame is ever handed out: init_mark_segment(), the     *)
(* searches and mark_page() and mark_8n_pages() agree about every bit.      *)
FramesConserved ==
  /\ available \cup OwnedFrames = Usable
  /\ available \cap OwnedFrames = {}
  /\ \A b, c \in owned : b # c => Frames(b) \cap Frames(c) = {}

(* No free page lies before the word where the next search starts: the     *)
(* shortcut of first_available_frame_idx never hides memory, whatever was   *)
(* freed since, so page_frame_alloc_page() fails only when nothing is free. *)
SearchMissesNothing ==
  \A p \in available : BitmapIdx(p) >= RoundDown(first_available_frame_idx)

(* The allocator panics only in the call that follows a failed allocation; *)
(* in particular its test for a double free never hits a correct caller.    *)
PanicsOnlyAfterFailure == panic # "none" => panic = "lock taken twice"

(* A call returns with page_alloc_lock released, whether it found a page    *)
(* or returns 0 for failure.                                                *)
LockReleased == ~lock

(* n_available_frames is the number of frames that are free.                *)
CountsFreeFrames == n_available_frames = Cardinality(available)

(* page_frame_alloc_pages(n) finds a run whenever n adjacent bytes of the  *)
(* bitmap, all of them free, start at any byte of a word.                   *)
FindsAnyRun ==
  \A n \in 1 .. MaxRun, i \in Bytes \ {0} :
    (\A j \in 0 .. n - 1 : FullByte(i + j, FALSE)) => RunWords(n, FALSE) # {}
=============================================================================
