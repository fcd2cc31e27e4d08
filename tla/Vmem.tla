-------------------------------- MODULE Vmem --------------------------------
(***************************************************************************)
(* The virtual memory manager, kernel/memory/vmem_manager.c: page frames   *)
(* of the allocator, mapped at their logical addresses through the one     *)
(* page table of the kernel, whose last entries map the VGA memory.        *)
(* Composes PageFrames with Paging.                                        *)
(***************************************************************************)
EXTENDS PageFrames, Paging

CONSTANTS VgaEntries,  \* the entries boot.S maps to the frames from 0xB8000 on
          FPOs         \* the option words that callers pass

VARIABLES page_table,
          asked,    \* history: owned frames that were requested with FPO_CLEAR
          cleared,  \* history: frames that are all zero
          mapPanic  \* the kpanic() of map_page() or unmap_page()

vmemVars == <<frameVars, page_table, asked, cleared, mapPanic>>

FPO_HIGHMEM == 1
FPO_CLEAR   == 2

\* MASK_BIT(b, n): the n-th bit of b, in its place.
MASK_BIT(b, n) == ((b \div 2^n) % 2) * 2^n

BootMapped == SegmentPages(boot.kernel) \cup SegmentPages(boot.initrd)

VmemInit ==
  /\ FrameInit
  /\ page_table = [i \in 0 .. TableEntries - 1 |->
                     IF i \in VgaEntries THEN Entry(-2, TRUE)
                     ELSE IF i \in BootMapped THEN Entry(i, FALSE) ELSE NoEntry]
  /\ asked = {} /\ cleared = {}
  /\ mapPanic = "none"

AddrsOf(b) == [k \in 1 .. Size(b) |-> (b.page + k - 1) * PageSize]

Running == panic = "none" /\ mapPanic = "none"

\* A bug: only the first page of a block is mapped.
MapFirst(b, fpo) ==
  LET r == MapAll(Result(page_table, "none"), <<b.page * PageSize>>, TRUE)
  IN /\ page_table' = r.table
     /\ mapPanic' = r.panic
     /\ UNCHANGED <<asked, cleared>>

\* What follows a successful allocation: map every page, and clear them if
\* the option is found.
MapAndClear(b, fpo) ==
  LET r == MapAll(Result(page_table, "none"), AddrsOf(b), TRUE)
  IN /\ page_table' = r.table
     /\ mapPanic' = r.panic
     /\ asked' = IF (fpo \div FPO_CLEAR) % 2 = 1 THEN asked \cup Frames(b) ELSE asked
     /\ cleared' = IF MASK_BIT(fpo, FPO_CLEAR) = 1 THEN cleared \cup Frames(b) ELSE cleared

\* The kpanic() for high memory, then the frame, then its mapping.
Request(alloc, fpo) ==
  /\ Running
  /\ IF MASK_BIT(fpo, FPO_HIGHMEM) = 1
     THEN /\ mapPanic' = "highmem"
          /\ UNCHANGED <<frameVars, page_table, asked, cleared>>
     ELSE /\ alloc
          /\ IF owned' = owned
             THEN UNCHANGED <<page_table, asked, cleared, mapPanic>>
             ELSE \E b \in owned' \ owned : MapAndClear(b, fpo)

vmem_request_free_page(fpo)     == Request(AllocPage, fpo)
vmem_request_free_pages(fpo, n) == Request(AllocPages(n), fpo)

\* vmem_free_page() and vmem_free_pages(): unmap every page, then free.
vmem_free(b) ==
  /\ Running
  /\ LET r == UnmapAll(Result(page_table, "none"), AddrsOf(b))
     IN /\ page_table' = r.table
        /\ mapPanic' = r.panic
        /\ IF r.panic = "none" THEN Free(b) ELSE UNCHANGED frameVars
  /\ asked' = asked \ Frames(b) /\ cleared' = cleared \ Frames(b)

\* Every function of the allocator runs into a lock that a failed allocation
\* has left taken, the free functions after they have unmapped.
CallAfterFailure ==
  /\ Running /\ CallLocked
  /\ UNCHANGED <<page_table, asked, cleared, mapPanic>>

FreeAfterFailure(b) ==
  /\ Running /\ CallLocked
  /\ page_table' = UnmapAll(Result(page_table, "none"), AddrsOf(b)).table
  /\ UNCHANGED <<asked, cleared, mapPanic>>

VmemNext ==
  \/ \E fpo \in FPOs : vmem_request_free_page(fpo)
  \/ \E fpo \in FPOs, n \in 1 .. MaxRun : vmem_request_free_pages(fpo, n)
  \/ \E b \in owned : vmem_free(b)
  \/ CallAfterFailure
  \/ \E b \in owned : FreeAfterFailure(b)

VmemSpec == VmemInit /\ [][VmemNext]_vmemVars

-----------------------------------------------------------------------------
(* While the kernel runs, the page table maps exactly the kernel, the       *)
(* initrd, the VGA memory and the frames that callers own, each to itself   *)
(* and the owned ones writable: vmem_free_page() leaves no mapping behind   *)
(* and no caller gets a frame it cannot write.                              *)
PageTableExact ==
  Running =>
    /\ {i \in DOMAIN page_table : page_table[i] # NoEntry}
         = VgaEntries \cup BootMapped \cup OwnedFrames
    /\ \A f \in OwnedFrames : page_table[f] = Entry(f, TRUE)

(* map_page() panics only when the allocator hands out a frame at or after  *)
(* the VGA entries, and unmap_page() never does: the page table and the     *)
(* bitmap stay in step.                                                     *)
PanicsOnlyOutsideWindow ==
  /\ mapPanic \in {"none", "overwrite", "no page table"}
  /\ mapPanic # "none" => \E f \in OwnedFrames : f >= Min(VgaEntries)

(* A page that is requested with FPO_CLEAR is handed out cleared.           *)
ClearedWhenAsked == asked \subseteq cleared
=============================================================================
