----------------------------- MODULE BootMemory -----------------------------
(***************************************************************************)
(* kernel_init() of kernel/boot/init.c: reads the memory map, unmaps the   *)
(* init section, moves the initrd to where that section was, and removes   *)
(* the identity mapping boot.S started with.  Addresses are in units of    *)
(* which PageSize make a page (4096 bytes in the code).  It runs once, with *)
(* interrupts disabled, so each of its parts is one step.                  *)
(***************************************************************************)
EXTENDS Paging, FiniteSets, FiniteSetsExt

CONSTANTS LowPages,      \* the pages below 1 MiB
          MiB,           \* the value of the macro MiB, 22 bytes in the code
          SegmentMax,    \* MEMMAP_SEGMENT_MAX
          MemoryMaps,    \* memory maps of the boot loader, sequences of entries
          KernelPages,   \* pages of the kernel image, which starts at LowPages
          InitSections,  \* possible numbers of pages of its init section, the last ones
          InitrdSizes,   \* possible sizes of the initrd
          InitrdPages    \* pages the boot loader may put it at

VARIABLES pc, panic, table,
          mem,       \* page |-> what it holds: page k of the initrd is k
          initSize, size, old,  \* this boot's init section, initrd size and place
          entries,   \* this boot's memory map
          segments   \* boot_data.mmap_segments

vars == <<pc, panic, table, mem, initSize, size, old, entries, segments>>

PageCount(n) == (n + PageSize - 1) \div PageSize
KernelEnd    == LowPages + KernelPages
InitStart    == KernelEnd - initSize
NoData       == -1

\* The table that boot.S fills: everything up to the end of the kernel.
Init ==
  /\ pc = "mmap" /\ panic = "none" /\ segments = <<>>
  /\ initSize \in InitSections /\ size \in InitrdSizes /\ old \in InitrdPages
  /\ entries \in MemoryMaps
  /\ table = [i \in 0 .. TableEntries - 1 |-> IF i < KernelEnd THEN Entry(i, TRUE) ELSE NoEntry]
  /\ mem = [p \in 0 .. TableEntries - 1 |->
              IF p \in old .. old + PageCount(size) - 1 THEN p - old ELSE NoData]

Goto(l, r) == /\ pc' = IF r.panic = "none" THEN l ELSE "stopped"
              /\ panic' = r.panic
              /\ table' = r.table

\* The segments the kernel keeps: available ones above the macro.
Kept(e) == e.type = "available" /\ e.addr > MiB

ReadMemoryMap ==
  /\ pc = "mmap"
  /\ IF Len(entries) > SegmentMax
     THEN Goto("stopped", Result(table, "too many segments")) /\ UNCHANGED segments
     ELSE /\ segments' = SelectSeq(entries, Kept)
          /\ Goto("init_section", Result(table, "none"))
  /\ UNCHANGED <<mem, initSize, size, old, entries>>

\* The unmapping of the init section; i counts pages and is added to an address.
UnmapInitSection ==
  /\ pc = "init_section"
  /\ Goto("initrd", UnmapAll(Result(table, "none"),
                             [i \in 1 .. initSize |-> InitStart * PageSize + i - 1]))
  /\ UNCHANGED <<mem, initSize, size, old, entries, segments>>

\* A bug: the old pages are unmapped before they are copied.
RelocatedUnmapped(from, to) ==
  LET offsets == [i \in 1 .. PageCount(size) |-> i - 1]
      mapped  == FoldLeft(LAMBDA r, i : MapPage(r, to + i, to + i, TRUE), Result(table, "none"), offsets)
  IN [mapped |-> mapped, final |-> mapped]

\* The loops of initrd_relocation(): both places are mapped page by page, and
\* after the copy the old one is unmapped and the new one made read-only.
Relocated(from, to) ==
  LET offsets == [i \in 1 .. PageCount(size) |-> i - 1]
      mapped  == FoldLeft(LAMBDA r, i : MapPage(MapPage(r, to + i, to + i, TRUE),
                                               from + i, from + i, TRUE),
                         Result(table, "none"), offsets)
      final   == FoldLeft(LAMBDA r, i : MapPage(UnmapPage(r, from + i), to + i, to + i, FALSE),
                         mapped, offsets)
  IN [mapped |-> mapped, final |-> final]

\* memcpy(): page by page, unless it touches a page that is not mapped.
Copyable(t, from, to) ==
  \A k \in 0 .. PageCount(size) - 1 :
    t[from + k] # NoEntry /\ t[to + k] # NoEntry /\ t[to + k].writable

Copied(from, to) ==
  [p \in DOMAIN mem |-> IF p \in to .. to + PageCount(size) - 1 THEN mem[from + p - to] ELSE mem[p]]

Distance(a, b) == IF a > b THEN a - b ELSE b - a

RelocateInitrd ==
  /\ pc = "initrd"
  /\ LET r == Relocated(old * PageSize, InitStart * PageSize)
     IN IF ~(Distance(old, InitStart) * PageSize > size)
        THEN Goto("stopped", Result(table, "overlap")) /\ UNCHANGED mem
        ELSE IF r.mapped.panic = "none" /\ ~Copyable(r.mapped.table, old, InitStart)
        THEN Goto("stopped", Result(table, "page fault")) /\ UNCHANGED mem
        ELSE /\ Goto("identity", r.final)
             /\ mem' = IF r.mapped.panic = "none" THEN Copied(old, InitStart) ELSE mem
  /\ UNCHANGED <<initSize, size, old, entries, segments>>

\* unmap_identity_mapping(), then kernel_main().
UnmapIdentityMapping ==
  /\ pc = "identity"
  /\ Goto("main", Result([i \in DOMAIN table |-> IF i < LowPages THEN NoEntry ELSE table[i]], "none"))
  /\ UNCHANGED <<mem, initSize, size, old, entries, segments>>

Done == pc \in {"main", "stopped"} /\ UNCHANGED vars

Next == ReadMemoryMap \/ UnmapInitSection \/ RelocateInitrd \/ UnmapIdentityMapping \/ Done

Spec == Init /\ [][Next]_vars

-----------------------------------------------------------------------------
InitrdPageSet == InitStart .. InitStart + PageCount(size) - 1

(* When kernel_main() starts, the initrd lies whole and read-only where     *)
(* boot_data says, only it and the rest of the kernel image are mapped, and *)
(* nothing is left of the identity mapping or of the initrd's old place.    *)
InitrdInPlace ==
  pc = "main" =>
    /\ \A k \in 0 .. PageCount(size) - 1 :
         mem[InitStart + k] = k /\ table[InitStart + k] = Entry(InitStart + k, FALSE)
    /\ {i \in DOMAIN table : table[i] # NoEntry} = (LowPages .. InitStart - 1) \cup InitrdPageSet

(* Booting stops only for an initrd or an init section of more than one     *)
(* page, for places that are not apart, or for a memory map that is too     *)
(* long; never by a page fault of the copy.                                 *)
StopsOnlyForSize ==
  pc = "stopped" =>
    \/ panic = "too many segments" /\ Len(entries) > SegmentMax
    \/ panic = "overlap" /\ Distance(old, InitStart) * PageSize <= size
    \/ panic \in {"overwrite", "already unmapped"} /\ (initSize > 1 \/ size > PageSize)

(* An initrd that lies apart from its new place is moved there, whatever    *)
(* its size is.                                                             *)
MovesAnyInitrd ==
  pc = "stopped" /\ panic # "too many segments" /\ initSize = 1
    => Distance(old, InitStart) * PageSize <= size

(* Every segment the allocator is given lies above 1 MiB.                   *)
SegmentsAboveMiB == \A s \in ToSet(segments) : s.addr >= LowPages * PageSize
=============================================================================
