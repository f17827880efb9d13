---------------------------------- MODULE PMM ----------------------------------
(***************************************************************************)
(* The bitmap page frame allocator, symphony/mm/pmm.c.                     *)
(*                                                                         *)
(* pmm_init is one step; pmm_alloc and pmm_free are executed one loop      *)
(* iteration at a time, so that what their loops maintain can be stated    *)
(* and proved.  The variable pc says where in pmm.c the CPU is.            *)
(*                                                                         *)
(* Definitions whose names end in _mut are faulty variants of the          *)
(* definition that follows them, each with a mistake the code could have;  *)
(* a property is worth checking only if it tells them apart.               *)
(***************************************************************************)
EXTENDS Integers, Sequences

CONSTANTS
  PAGE_SIZE,  \* bytes per page (4096 in mm.h)
  INT_MOD,    \* number of values of a C int (2^32)
  HHDM,       \* boot_proto_hhdm_offset()
  MemMaps,    \* the memory maps the boot loader may deliver
  Requests,   \* the page counts callers pass to pmm_alloc
  Frees       \* the page counts callers pass to pmm_free

USABLE == "BOOT_PROTO_MEMMAP_USABLE"

\* Entry index i of the code is mm[i + 1] here.
MemMapEntries == [base : Nat, length : Nat, type : STRING]

\* The Limine protocol delivers usable entries aligned to pages.
ASSUME PMMAssumption ==
  /\ PAGE_SIZE \in Nat \ {0}
  /\ INT_MOD \in Nat \ {0}
  /\ HHDM \in Nat
  /\ Requests \subseteq Int
  /\ Frees \subseteq Int
  /\ MemMaps \subseteq Seq(MemMapEntries)
  /\ \A mm \in MemMaps : \A i \in DOMAIN mm :
       mm[i].type = USABLE => /\ mm[i].base % PAGE_SIZE = 0
                              /\ mm[i].length % PAGE_SIZE = 0

VARIABLES
  memmap,      \* the boot loader's memory map
  pc,          \* the loop the CPU is in, or how it was halted
  bitmapSize,  \* static size_t bitmapSize
  bitmapPhys,  \* physical address of static uint8_t* bitmap
  bitmap,      \* its bytes: the set of bits (0 is 0b10000000) that are one
  base,        \* basePage, or the first page of the running pmm_free
  pages,       \* argument of the running call
  pos,         \* page the running loop looks at: i*8+j, or i
  inChunk,     \* locals of pmm_find_free_pages
  found,
  mem,         \* what was last stored in each usable page
  owned        \* pages that pmm_alloc handed out and that are still in use

scanVars == <<base, pages, pos, inChunk, found>>
initVars == <<memmap, bitmapSize, bitmapPhys>>
vars == <<memmap, pc, bitmapSize, bitmapPhys, bitmap, base, pages, pos,
          inChunk, found, mem, owned>>

-----------------------------------------------------------------------------
(***************************************************************************)
(* Arithmetic and the bitmap.                                              *)
(***************************************************************************)
ALIGN_UP(x, a) == IF x % a = 0 THEN x ELSE x + (a - (x % a))

\* assert(cond, msg): the condition is passed as an int.
Holds(cond) == cond % INT_MOD # 0

PageOf(addr) == addr \div PAGE_SIZE

\* Pages of which the bytes addr .. addr+len-1 lie in.
PagesTouched(addr, len) ==
  IF len = 0 THEN {} ELSE PageOf(addr) .. PageOf(addr + len - 1)

Bits == 0 .. 7

Tracked(page) == page \div 8 < bitmapSize

Bit(page) == page % 8 \in bitmap[page \div 8]

pmm_bitmap_set_mut(page) ==  \* shifts by one bit too many
  bitmap' = [bitmap EXCEPT ![page \div 8] = @ \cup {(page % 8) + 1}]

pmm_bitmap_set(page) ==
  bitmap' = [bitmap EXCEPT ![page \div 8] = @ \cup {page % 8}]

pmm_bitmap_clear_mut(page) ==  \* takes the bits in the other order
  bitmap' = [bitmap EXCEPT ![page \div 8] = @ \ {7 - (page % 8)}]

pmm_bitmap_clear(page) ==
  bitmap' = [bitmap EXCEPT ![page \div 8] = @ \ {page % 8}]

TrackedPages == 0 .. (8 * bitmapSize - 1)

FreeBits == {p \in TrackedPages : ~Bit(p)}

-----------------------------------------------------------------------------
(***************************************************************************)
(* The memory map.                                                         *)
(***************************************************************************)
EntryPages(e) == PageOf(e.base) .. (PageOf(e.base + e.length) - 1)

UsableEntries(mm) == {i \in DOMAIN mm : mm[i].type = USABLE}

UsablePages(mm) == UNION {EntryPages(mm[i]) : i \in UsableEntries(mm)}

\* The loop runs down from the last entry and stops before entry 0.
IsLastUsable(mm, i) ==
  /\ i \in UsableEntries(mm) \ {1}
  /\ \A j \in UsableEntries(mm) : j <= i

pmm_bitmap_last_tracked_page(mm) ==
  IF \E i \in DOMAIN mm : IsLastUsable(mm, i)
  THEN LET e == mm[CHOOSE i \in DOMAIN mm : IsLastUsable(mm, i)]
       IN  PageOf(e.base + e.length)
  ELSE 0

BitmapBytes(mm) == ALIGN_UP(pmm_bitmap_last_tracked_page(mm), 8) \div 8

\* An entry that starts at address 0 loses its first page.
Shifted(e) ==
  IF e.base # 0 THEN e
  ELSE [e EXCEPT !.base = PAGE_SIZE,
                 !.length = IF @ >= PAGE_SIZE THEN @ - PAGE_SIZE ELSE 0]

FirstEntryFor_mut(mm, bytes, i) ==  \* > in place of >=
  /\ i \in UsableEntries(mm)
  /\ Shifted(mm[i]).length > bytes
  /\ \A j \in UsableEntries(mm) : j < i => Shifted(mm[j]).length <= bytes

FirstEntryFor(mm, bytes, i) ==
  /\ i \in UsableEntries(mm)
  /\ Shifted(mm[i]).length >= bytes
  /\ \A j \in UsableEntries(mm) : j < i => Shifted(mm[j]).length < bytes

StoragePages_mut(phys, bytes) ==  \* forgets ALIGN_UP
  PageOf(phys) .. (PageOf(phys) + bytes \div PAGE_SIZE - 1)

StoragePages(phys, bytes) ==
  PageOf(phys) .. (PageOf(phys) + ALIGN_UP(bytes, PAGE_SIZE) \div PAGE_SIZE - 1)

\* Bytes 0xff, then usable pages cleared, then the bitmap's own pages and
\* page 0 set again.
BitmapAfterInit(mm, phys, bytes) ==
  [i \in 0 .. (bytes - 1) |->
     {j \in Bits : \/ 8 * i + j \notin UsablePages(mm)
                   \/ 8 * i + j \in StoragePages(phys, bytes)
                   \/ 8 * i + j = 0}]

\* Every page the loops of pmm_init touch passes the bound check.
InitInBounds(mm, phys, bytes) ==
  \A p \in UsablePages(mm) \cup StoragePages(phys, bytes) : p \div 8 < bytes

-----------------------------------------------------------------------------
Init ==
  /\ memmap \in MemMaps
  /\ pc = "boot"
  /\ bitmapSize = 0 /\ bitmapPhys = 0 /\ bitmap = [i \in {} |-> {}]
  /\ base = 0 /\ pages = 0 /\ pos = 0 /\ inChunk = FALSE /\ found = 0
  /\ mem = [p \in UsablePages(memmap) |-> "data"]
  /\ owned = {}

pmm_init ==
  /\ pc = "boot"
  /\ LET bytes == BitmapBytes(memmap) IN
     /\ Holds(bytes)
     /\ \E i \in DOMAIN memmap :
          LET phys == Shifted(memmap[i]).base IN
          /\ FirstEntryFor(memmap, bytes, i)
          /\ Holds(phys + HHDM)
          /\ InitInBounds(memmap, phys, bytes)
          /\ bitmapPhys' = phys
          /\ bitmap' = BitmapAfterInit(memmap, phys, bytes)
          /\ mem' = [p \in DOMAIN mem |->
                       IF p \in PagesTouched(phys, bytes) THEN "bitmap" ELSE mem[p]]
     /\ bitmapSize' = bytes
  /\ pc' = "idle"
  /\ UNCHANGED <<memmap, owned, scanVars>>

\* One of the assertions of pmm_init, or the one of
\* boot_proto_memmap_entry_get when the map is empty, fails.  The machine
\* halts; the statics it leaves behind are never read again.
pmm_init_assert ==
  /\ pc = "boot"
  /\ LET bytes == BitmapBytes(memmap) IN
     Holds(bytes) =>
       \A i \in DOMAIN memmap :
         FirstEntryFor(memmap, bytes, i) =>
           \/ ~Holds(Shifted(memmap[i]).base + HHDM)
           \/ ~InitInBounds(memmap, Shifted(memmap[i]).base, bytes)
  /\ pc' = "initassert"
  /\ UNCHANGED <<initVars, bitmap, scanVars, mem, owned>>

-----------------------------------------------------------------------------
(***************************************************************************)
(* pmm_alloc: pmm_find_free_pages, then the loop that marks the run.       *)
(***************************************************************************)
pmm_alloc(n) ==
  /\ pc = "idle"
  /\ pc' = "scan"
  /\ pages' = n /\ pos' = 0 /\ inChunk' = FALSE /\ found' = 0
  /\ UNCHANGED <<initVars, bitmap, base, mem, owned>>

ScanUsed_mut ==  \* the count of the last chunk is kept
  /\ pc = "scan" /\ Tracked(pos) /\ Bit(pos)
  /\ inChunk' = FALSE
  /\ pos' = pos + 1
  /\ UNCHANGED <<initVars, pc, bitmap, base, pages, found, mem, owned>>

ScanUsed_mut_stuck ==  \* does not go on to the next page
  /\ pc = "scan" /\ Tracked(pos) /\ Bit(pos)
  /\ inChunk' = FALSE /\ found' = 0
  /\ UNCHANGED <<initVars, pc, bitmap, base, pages, pos, mem, owned>>

ScanUsed ==
  /\ pc = "scan" /\ Tracked(pos) /\ Bit(pos)
  /\ inChunk' = FALSE /\ found' = 0
  /\ pos' = pos + 1
  /\ UNCHANGED <<initVars, pc, bitmap, base, pages, mem, owned>>

ScanFree ==
  /\ pc = "scan" /\ Tracked(pos) /\ ~Bit(pos)
  /\ base' = IF inChunk THEN base ELSE pos
  /\ inChunk' = TRUE
  /\ found' = found + 1
  /\ IF found' = pages
     THEN /\ pc' = "mark"
          /\ pos' = base'
          /\ owned' = owned \cup (base' .. (base' + pages - 1))
     ELSE /\ pos' = pos + 1
          /\ UNCHANGED <<pc, owned>>
  /\ UNCHANGED <<initVars, bitmap, pages, mem>>

\* The bitmap is exhausted: debug_panic("Out of Memory!").
ScanPanic ==
  /\ pc = "scan" /\ ~Tracked(pos)
  /\ pc' = "panic"
  /\ UNCHANGED <<initVars, bitmap, scanVars, mem, owned>>

MarkPage ==
  /\ pc = "mark" /\ pos < base + pages
  /\ IF Tracked(pos)
     THEN pmm_bitmap_set(pos) /\ pos' = pos + 1 /\ UNCHANGED pc
     ELSE pc' = "assert" /\ UNCHANGED <<bitmap, pos>>
  /\ UNCHANGED <<initVars, base, pages, inChunk, found, mem, owned>>

\* return (void*)(base << 12)
MarkDone ==
  /\ pc = "mark" /\ pos = base + pages
  /\ pc' = "idle"
  /\ UNCHANGED <<initVars, bitmap, scanVars, mem, owned>>

-----------------------------------------------------------------------------
(***************************************************************************)
(* pmm_free, for a caller that gives back pages it owns.                   *)
(***************************************************************************)
pmm_free(addr, n) ==
  /\ pc = "idle"
  /\ n >= 1
  /\ addr % PAGE_SIZE = 0
  /\ PageOf(addr) .. (PageOf(addr) + n - 1) \subseteq owned
  /\ pc' = "clear"
  /\ base' = PageOf(addr) /\ pages' = n /\ pos' = PageOf(addr)
  /\ UNCHANGED <<initVars, bitmap, inChunk, found, mem, owned>>

ClearPage ==
  /\ pc = "clear" /\ pos < base + pages
  /\ IF Tracked(pos)
     THEN pmm_bitmap_clear(pos) /\ pos' = pos + 1 /\ UNCHANGED pc
     ELSE pc' = "assert" /\ UNCHANGED <<bitmap, pos>>
  /\ UNCHANGED <<initVars, base, pages, inChunk, found, mem, owned>>

Poisoned_mut ==  \* one page, however many are freed
  PagesTouched(base * PAGE_SIZE, PAGE_SIZE)

\* PAGE_SIZE*pages is computed as an int, which the compiled code lets wrap
\* around: 2^19 pages are a negative number, 2^20 pages none at all.
PoisonBytes ==
  LET n == (PAGE_SIZE * pages) % INT_MOD
  IN  IF n < INT_MOD \div 2 THEN n ELSE n - INT_MOD

\* memset(base + hhdm, 0xff, PAGE_SIZE*pages).  As a size_t a negative number
\* is nearly 2^64: the memset runs through all memory above base.
Poisoned ==
  IF PoisonBytes < 0 THEN {p \in DOMAIN mem : p >= base}
                     ELSE PagesTouched(base * PAGE_SIZE, PoisonBytes)

\* A memset that runs past the end of memory ends in a page fault.
ClearDone ==
  /\ pc = "clear" /\ pos = base + pages
  /\ mem' = [p \in DOMAIN mem |-> IF p \in Poisoned THEN "poison" ELSE mem[p]]
  /\ owned' = owned \ (base .. (base + pages - 1))
  /\ pc' = IF PoisonBytes < 0 THEN "fault" ELSE "idle"
  /\ UNCHANGED <<initVars, bitmap, scanVars>>

\* A page's owner stores into it.
OwnerWrite(p) ==
  /\ pc = "idle"
  /\ p \in owned
  /\ mem[p] # "data"
  /\ mem' = [mem EXCEPT ![p] = "data"]
  /\ UNCHANGED <<initVars, pc, bitmap, scanVars, owned>>

\* arch_halt(): the CPU never leaves it.
Halted == pc \in {"initassert", "assert", "panic", "fault"} /\ UNCHANGED vars

\* What the running call does by itself.
Step ==
  \/ ScanUsed \/ ScanFree \/ ScanPanic \/ MarkPage \/ MarkDone
  \/ ClearPage \/ ClearDone

Next ==
  \/ pmm_init
  \/ pmm_init_assert
  \/ \E n \in Requests : pmm_alloc(n)
  \/ Step
  \/ \E p \in owned, n \in Frees : pmm_free(p * PAGE_SIZE, n)
  \/ \E p \in owned : OwnerWrite(p)
  \/ Halted

Spec == Init /\ [][Next]_vars

-----------------------------------------------------------------------------
(***************************************************************************)
(* Properties.                                                             *)
(***************************************************************************)
TypeOK ==
  /\ memmap \in MemMaps
  /\ pc \in {"boot", "idle", "scan", "mark", "clear",
            "initassert", "assert", "panic", "fault"}
  /\ bitmapSize \in Nat
  /\ bitmapPhys \in Nat
  /\ bitmap \in [0 .. (bitmapSize - 1) -> SUBSET Bits]
  /\ base \in Nat
  /\ pages \in Int
  /\ pos \in Nat
  /\ inChunk \in BOOLEAN
  /\ found \in Nat
  /\ mem \in [UsablePages(memmap) -> {"data", "poison", "bitmap"}]
  /\ owned \subseteq Nat

Storage == StoragePages(bitmapPhys, bitmapSize)

\* The pages pmm_init leaves to allocate from.
Pool == UsablePages(memmap) \ (Storage \cup {0})

\* No caller ever holds a page that is not usable memory, page 0, or a page
\* of the bitmap itself, whatever sequence of pmm_alloc and (partial)
\* pmm_free calls led here.
OwnedFromPool == owned \subseteq Pool

\* Between two calls every page of the pool is either free in the bitmap or
\* held by a caller, never both and never neither: nothing is handed out
\* twice, leaked by pmm_alloc or lost by pmm_free.
Conservation ==
  pc \in {"idle", "scan", "panic"} =>
    /\ FreeBits \cap owned = {}
    /\ FreeBits \cup owned = Pool

\* Once pmm_init is done no bound check of pmm_bitmap_set or
\* pmm_bitmap_clear fails: the only assertions that halt are pmm_init's.
NoLateAssert == pc # "assert"

\* The bitmap's bytes are never poisoned or handed to a writer.
BitmapIntact ==
  bitmapSize > 0 =>
    \A p \in PagesTouched(bitmapPhys, bitmapSize) :
      p \in DOMAIN mem /\ mem[p] = "bitmap"

\* After boot only pages that a caller holds change, and a page that is
\* given back is all 0xff (mm.h: "setting all deallocated bytes to 0xFF").
FreedPagesPoisoned ==
  [][ pc # "boot" =>
        \A p \in DOMAIN mem :
          /\ mem'[p] # mem[p] => p \in owned
          /\ p \in owned /\ p \notin owned' => mem'[p] = "poison" ]_vars

\* The bitmap allocator implements the abstract one: first fit, and
\* "Out of Memory!" only if no run of free pages is long enough.
PhaseBar ==
  CASE pc = "boot" -> "boot"
    [] pc \in {"initassert", "assert", "panic", "fault"} -> "halt"
    [] OTHER -> "run"

Abstract == INSTANCE PageAllocator
  WITH usable <- UsablePages(memmap), phase <- PhaseBar,
       avail <- FreeBits \ owned, owned <- owned

ImplementsAllocator == Abstract!AllocSpec

\* pmm_init halts only if no usable entry has room for a bitmap that covers
\* all usable pages (pmm.c: "The last page that needs to be tracked by the
\* bitmap is (generally) the last usable page").
BootFailsOnlyWithoutRoom ==
  pc = "initassert" =>
    \A i \in UsableEntries(memmap) :
      \E p \in UsablePages(memmap) : ~(p \div 8 < Shifted(memmap[i]).length)
=============================================================================
