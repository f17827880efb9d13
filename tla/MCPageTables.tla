------------------------------ MODULE MCPageTables ------------------------------
(***************************************************************************)
(* Instances of PageTables for TLC: four entries per table, so 256 virtual *)
(* pages, of two bytes.  Physical memory is mapped from virtual page 128,  *)
(* the start of the upper half, and the kernel at virtual page 252.        *)
(* vmm_init takes eight of the frames for tables; a second page table with *)
(* one mapping takes five more.                                            *)
(***************************************************************************)
EXTENDS PageTables

\* An entry at address 0 and one that needs two tables of the last level.
Memory ==
  << [base |-> 0, length |-> 2 * PAGE_SIZE],
     [base |-> 3 * PAGE_SIZE, length |-> 3 * PAGE_SIZE] >>

\* The kernel's size is not a multiple of the page size.
KernelRange ==
  [pa |-> 4 * PAGE_SIZE, va |-> 252 * PAGE_SIZE, size |-> 2 * PAGE_SIZE - 1]

MCFrames == 1 .. 14

\* Lower-half addresses in different tables of the last level.
Low == {PAGE_SIZE, 5 * PAGE_SIZE}

MCFlags == {{"PRESENT", "EXEC"}, {"PRESENT", "RW", "EXEC"}}
=============================================================================
