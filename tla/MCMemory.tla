------------------------------ MODULE MCMemory ------------------------------
(***************************************************************************)
(* The start of the kernel, page frames with the page table, and the heap  *)
(* for TLC.  The heap takes its segments once and never gives them back,   *)
(* and kernel_init() ends before the allocators start: the parts share no  *)
(* state, and the initial state chooses the one that moves.                *)
(***************************************************************************)
EXTENDS Vmem

CONSTANTS Parts,  \* the parts that are checked
          Words, SegmentSize, ChunkSize, Alignment, Sizes, MaxBlocks, TracksFreed,
          BootPageSize, BootTableEntries, LowPages, MiB, SegmentMax, MemoryMaps,
          KernelPages, InitSections, InitrdSizes, InitrdPages

VARIABLES part,
          heapMem, free_list, heapSegments, heapOwned, moving, freed, heapPanic,
          pc, bootPanic, table, bootMem, initSize, size, old, entries, segments

Heap == INSTANCE Heap WITH mem <- heapMem, segments <- heapSegments, owned <- heapOwned,
                           panic <- heapPanic
Boot == INSTANCE BootMemory WITH PageSize <- BootPageSize, TableEntries <- BootTableEntries,
                                 panic <- bootPanic, mem <- bootMem

heapVars == <<heapMem, free_list, heapSegments, heapOwned, moving, freed, heapPanic>>
bootVars == <<pc, bootPanic, table, bootMem, initSize, size, old, entries, segments>>
allVars  == <<part, vmemVars, heapVars, bootVars>>

\* A part that does not move has one of its initial states.
MemoryInit ==
    /\ part \in Parts
    /\ VmemInit /\ Heap!Init /\ Boot!Init
    /\ part # "vmem" => boot = CHOOSE b \in BootMaps : TRUE
    /\ part # "boot" => <<initSize, size, old, entries>> =
           CHOOSE b \in InitSections \X InitrdSizes \X InitrdPages \X MemoryMaps : TRUE

MemoryNext ==
    /\ UNCHANGED part
    /\ \/ part = "vmem" /\ VmemNext /\ UNCHANGED <<heapVars, bootVars>>
       \/ part = "heap" /\ Heap!Next /\ UNCHANGED <<vmemVars, bootVars>>
       \/ part = "boot" /\ Boot!Next /\ UNCHANGED <<vmemVars, heapVars>>

MemorySpec == MemoryInit /\ [][MemoryNext]_allVars

-----------------------------------------------------------------------------
\* More memory than the page table maps, as on every machine with 4 MiB: one
\* segment that starts and ends inside a byte, and two segments.
MCBootMaps == {
    [segments |-> <<<<3, 7>>>>, kernel |-> <<3, 1>>, initrd |-> <<3, 1>>],
    [segments |-> <<<<2, 3>>, <<6, 4>>>>, kernel |-> <<2, 1>>, initrd |-> <<2, 1>>]}

E(t, a) == [type |-> t, addr |-> a]

\* Maps of a BIOS that reports the first page as available, as reserved, or
\* in more pieces than the kernel takes.
MCMemoryMaps == {
    <<E("available", 0), E("reserved", 6), E("available", 8)>>,
    <<E("reserved", 0), E("available", 4), E("available", 8)>>,
    <<E("available", 0), E("reserved", 4), E("available", 8), E("reserved", 40)>>}

-----------------------------------------------------------------------------
\* page_frame_manager.c: every frame is free or belongs to one block, and the
\* count of free frames is exact; the search starts before the first free frame;
\* and it panics only after an allocation that failed.
FramesExact == FramesConserved /\ SearchMissesNothing /\ PanicsOnlyAfterFailure

\* vmem_manager.c, paging.c: exactly the pages in use are mapped, each to its own
\* frame, and mapping panics only outside the window of the page table.
MappingExact == PageTableExact /\ PanicsOnlyOutsideWindow

\* heap_allocator.c: the heap verifies; its tags, its free list and what callers
\* own agree; and two free blocks never touch.
HeapExact == part = "heap" => Heap!TagsAndListAgree /\ Heap!Coalesced

\* heap_allocator.c: what callers own never overlaps and has the size that they
\* asked for.
IsMemoryPool == Heap!IsMemoryPool

\* init.c: when kernel_main() starts, the initrd lies whole and read-only where
\* boot_data says, and only it and the kernel are mapped; booting stops only for
\* sizes and places it cannot handle, never by a page fault.
InitrdInPlace == Boot!InitrdInPlace /\ Boot!StopsOnlyForSize
=============================================================================
