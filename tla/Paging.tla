------------------------------- MODULE Paging -------------------------------
(***************************************************************************)
(* map_page() and unmap_page() of kernel/arch/i686/paging.c, on the one    *)
(* page table boot_page_table1 that boot.S provides.  Addresses are in     *)
(* units of which PageSize make a page; a virtual address is relative to   *)
(* HIGHER_HALF_ADDR, where P2L() and L2P() translate between the two by    *)
(* adding and subtracting that base, so logical addresses equal physical   *)
(* ones here.  Only the directory entry of this table exists.              *)
(***************************************************************************)
EXTENDS Integers, Sequences, SequencesExt

CONSTANTS PageSize,
          TableEntries  \* 1024 in the code

\* A page table entry: the physical page and whether it is writable.
NoEntry == [phys |-> -1, writable |-> FALSE]
Entry(page, w) == [phys |-> page, writable |-> w]

DirIndex(virt)   == virt \div (PageSize * TableEntries)
TableIndex(virt) == (virt \div PageSize) % TableEntries

\* The outcome of a call: the table, and the kpanic() that stopped it.
Result(table, panic) == [table |-> table, panic |-> panic]

\* map_page(): an entry may change its flags, never its page.
MapPage(r, physaddr, virtaddr, w) ==
  LET i == TableIndex(virtaddr)
  IN IF r.panic # "none" THEN r
     ELSE IF DirIndex(virtaddr) # 0 THEN Result(r.table, "no page table")
     ELSE IF r.table[i].phys * PageSize # physaddr /\ r.table[i] # NoEntry
          THEN Result(r.table, "overwrite")
     ELSE Result([r.table EXCEPT ![i] = Entry(physaddr \div PageSize, w)], "none")

UnmapPage(r, virtaddr) ==
  LET i == TableIndex(virtaddr)
  IN IF r.panic # "none" THEN r
     ELSE IF DirIndex(virtaddr) # 0 THEN Result(r.table, "no page table")
     ELSE IF r.table[i] = NoEntry THEN Result(r.table, "already unmapped")
     ELSE Result([r.table EXCEPT ![i] = NoEntry], "none")

\* The loops over the pages of a block, at the addresses of the sequence.
MapAll(r, addrs, w) == FoldLeft(LAMBDA x, a : MapPage(x, a, a, w), r, addrs)
UnmapAll(r, addrs)  == FoldLeft(LAMBDA x, a : UnmapPage(x, a), r, addrs)
=============================================================================
