--------------------------------- MODULE MCPMM ---------------------------------
(***************************************************************************)
(* Instances of PMM for TLC.  With PAGE_SIZE = 2 a bitmap of three bytes   *)
(* already takes two pages.                                                *)
(***************************************************************************)
EXTENDS PMM

Entry(first, count, type) ==
  [base |-> first * PAGE_SIZE, length |-> count * PAGE_SIZE, type |-> type]

RESERVED == "BOOT_PROTO_MEMMAP_RESERVED"

\* Usable memory at address 0, in the middle and at the end; a bitmap of one,
\* two and three bytes; room for it in the first, or only in a later entry;
\* a map with no room, without usable memory, and an empty one.
AllocMaps ==
  { << Entry(0, 4, USABLE), Entry(4, 3, RESERVED), Entry(7, 3, USABLE) >>,
    << Entry(0, 2, USABLE), Entry(2, 13, RESERVED), Entry(15, 5, USABLE) >>,
    << Entry(0, 1, RESERVED), Entry(1, 1, USABLE), Entry(2, 1, RESERVED),
       Entry(3, 5, USABLE), Entry(8, 9, RESERVED) >>,
    << Entry(0, 1, USABLE), Entry(1, 4, USABLE) >>,
    << Entry(0, 1, RESERVED), Entry(16, 1, USABLE), Entry(18, 1, USABLE) >>,
    << Entry(0, 3, RESERVED) >>,
    << >> }

\* Up to three usable pages far apart: the last one is tracked by the last bit
\* of a byte or the first of the next, and the bitmap may fill its entry.
SparseMaps ==
  { << Entry(0, 1, k), Entry(a, 1, USABLE), Entry(b, c, USABLE) >> :
      k \in {USABLE, RESERVED}, a \in {1, 6}, b \in {7, 8, 9, 15, 16, 17}, c \in {1, 2} }

MCMaps == AllocMaps \cup SparseMaps

AllocRequests == {0, 1, 2, 3}

\* Parts of a run, all of it, and several runs that adjoin.
AllocFrees == 1 .. 6
=============================================================================
