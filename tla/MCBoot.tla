--------------------------------- MODULE MCBoot ---------------------------------
(***************************************************************************)
(* Instances of Boot for TLC: pages of two bytes and four entries per page *)
(* table, so 256 virtual pages.  Physical memory is mapped from virtual    *)
(* page 128 and the kernel runs at virtual page 252.                       *)
(***************************************************************************)
EXTENDS Boot

E(first, count, type) ==
  [base |-> first * PAGE_SIZE, length |-> count * PAGE_SIZE, type |-> type]

\* The kernel in two pages from page first on, the second one not full.
K(first, file) ==
  [pa |-> first * PAGE_SIZE, va |-> 252 * PAGE_SIZE, image |-> 2 * PAGE_SIZE - 1,
   file |-> file]

\* Usable memory at address 0 and after the stack and the kernel; the heap
\* only in the second part; a bitmap of two pages; all types of entries, one
\* that is not aligned and one that Limine may add; too few pages for the
\* tables, for the heap and for the bitmap; usable memory only in entry 0.
Machines ==
  { [entries |-> << E(0, 4, 0), E(4, 2, 5), E(6, 2, 6), E(8, 12, 0) >>, kernel |-> K(6, 5)],
    [entries |-> << E(0, 1, 1), E(1, 9, 0), E(10, 1, 5), E(11, 2, 6), E(13, 3, 0) >>,
     kernel |-> K(11, 3)],
    [entries |-> << E(0, 1, 1), E(1, 2, 5), E(3, 2, 6), E(5, 1, 2), E(6, 1, 3), E(7, 1, 4),
                    E(8, 12, 0), [base |-> 41, length |-> 2, type |-> 1],
                    E(22, 1, 7), E(23, 1, 8), E(24, 1, 9) >>, kernel |-> K(3, 4)],
    [entries |-> << E(0, 5, 0), E(5, 1, 5), E(6, 2, 6), E(8, 5, 0) >>, kernel |-> K(6, 4)],
    [entries |-> << E(0, 2, 6), E(2, 1, 5), E(3, 4, 0), E(7, 1, 1), E(8, 1, 0) >>,
     kernel |-> K(0, 4)],
    [entries |-> << E(0, 8, 0), E(8, 1, 5), E(9, 2, 6) >>, kernel |-> K(9, 4)] }

\* Memory of every size around the stack and the kernel.
Sizes ==
  { [entries |-> << E(0, a, 0), E(a, 1, 5), E(a + 1, 2, 6), E(a + 3, b, 0) >>,
     kernel |-> K(a + 1, 4)] : a \in 1 .. 8, b \in 1 .. 12 }

Loader(m, s, a, f) ==
  [supported |-> s, answered |-> a, firmware |-> f, entries |-> m.entries,
   kernel |-> m.kernel]

\* One answer or none is missing.
MCLoaders ==
  {Loader(m, TRUE, Answers \ {a}, 2) : m \in Machines, a \in Answers \cup {"none"}}
    \cup {Loader(m, FALSE, Answers, f) : m \in Machines, f \in 0 .. 3}
    \cup {Loader(m, TRUE, Answers, f) : m \in Machines, f \in 0 .. 3}
    \cup {Loader(m, TRUE, Answers, 0) : m \in Sizes}

MCMemMaps == {MemMapOf(l) : l \in MCLoaders}
=============================================================================
