------------------------------- MODULE PMMProofs -------------------------------
(***************************************************************************)
(* Proofs about PMM.tla, for every page size, memory map and sequence of   *)
(* requests:                                                               *)
(*                                                                         *)
(*   TypeCorrect      the type invariant                                   *)
(*   Safety           OwnedFromPool, Conservation, NoLateAssert and        *)
(*                    BitmapIntact                                         *)
(*   Poisoning        FreedPagesPoisoned                                   *)
(*   Refinement       the bitmap allocator implements PageAllocator        *)
(*   BootsWhereRoom   BootFailsOnlyWithoutRoom                             *)
(*                                                                         *)
(* The first four assume FreesFit, that no call gives back 2 GiB or more,  *)
(* and follow from the inductive invariant IndInv, whose                   *)
(* interesting part is what the search loop of pmm_find_free_pages         *)
(* maintains (ScanInv); the last is about the memory map alone.            *)
(***************************************************************************)
EXTENDS PMM, TLAPS, WellFoundedInduction

-----------------------------------------------------------------------------
(***************************************************************************)
(* The inductive invariant.                                                *)
(***************************************************************************)
Booted == pc \notin {"boot", "initassert"}

BootInv ==
  /\ ~Booted => bitmapSize = 0 /\ owned = {}
  /\ Booted => bitmapSize > 0
  /\ NoLateAssert

\* A page is free in the bitmap although it has an owner only while one of
\* the two marking loops has it in its range.
InFlight(p) ==
  \/ pc = "mark" /\ pos <= p /\ p < base + pages
  \/ pc = "clear" /\ base <= p /\ p < pos

PartitionInv ==
  Booted => /\ FreeBits \cup owned = Pool
            /\ owned \subseteq TrackedPages
            /\ \A p \in FreeBits \cap owned : InFlight(p)

\* pmm_find_free_pages: the chunk being measured is free, cannot be extended
\* downwards and is still too short, and no run that ends before pos is
\* long enough.
ScanInv ==
  pc \in {"scan", "panic"} =>
    /\ pages \in Requests
    /\ pos <= 8 * bitmapSize
    /\ inChunk => /\ base + found = pos
                  /\ found >= 1
                  /\ base .. (pos - 1) \subseteq FreeBits
                  /\ base - 1 \notin FreeBits
    /\ ~inChunk => found = 0 /\ pos - 1 \notin FreeBits
    /\ pages >= 1 =>
         /\ found < pages
         /\ \A c \in FreeBits :
              c + pages <= pos => ~(c .. (c + pages - 1) \subseteq FreeBits)

PanicInv == pc = "panic" => ~Tracked(pos)

RunInv ==
  pc \in {"mark", "clear"} =>
    /\ pages >= 1
    /\ base <= pos /\ pos <= base + pages
    /\ base .. (base + pages - 1) \subseteq owned
    /\ pc = "clear" => base .. (pos - 1) \subseteq FreeBits /\ pages \in Frees

StorageInv ==
  Booted => /\ PagesTouched(bitmapPhys, bitmapSize) \subseteq Storage
            /\ PagesTouched(bitmapPhys, bitmapSize) \subseteq UsablePages(memmap)
            /\ \A p \in PagesTouched(bitmapPhys, bitmapSize) : mem[p] = "bitmap"

\* Callers give back less than 2 GiB at a time: pmm_free's int product of
\* PAGE_SIZE and pages does not overflow.
FreesFit == \A n \in Frees : PAGE_SIZE * n < INT_MOD \div 2

IndInv ==
  /\ TypeOK
  /\ BootInv
  /\ PartitionInv
  /\ ScanInv
  /\ PanicInv
  /\ RunInv
  /\ StorageInv

-----------------------------------------------------------------------------
(***************************************************************************)
(* Arithmetic.                                                             *)
(***************************************************************************)

\* Quotient and remainder, as pmm.c uses them for bytes, bits and pages.
LEMMA DivMod ==
  ASSUME NEW d \in Nat \ {0}, NEW x \in Nat
  PROVE  /\ x \div d \in Nat
         /\ x % d \in 0 .. (d - 1)
         /\ x = d * (x \div d) + (x % d)
OBVIOUS

\* Division does not reverse an order.
LEMMA DivMonotone ==
  ASSUME NEW d \in Nat \ {0}, NEW x \in Nat, NEW y \in Nat, x <= y
  PROVE  x \div d <= y \div d
OBVIOUS

\* The quotient of a multiple plus less than the divisor.
LEMMA DivExact ==
  ASSUME NEW d \in Nat \ {0}, NEW k \in Nat, NEW r \in 0 .. (d - 1)
  PROVE  (d * k + r) \div d = k
OBVIOUS

\* ALIGN_UP returns a multiple of the alignment, not below its argument and
\* less than one alignment above it.
LEMMA AlignUp ==
  ASSUME NEW d \in Nat \ {0}, NEW x \in Nat
  PROVE  /\ ALIGN_UP(x, d) \in Nat
         /\ ALIGN_UP(x, d) = d * (ALIGN_UP(x, d) \div d)
         /\ x <= ALIGN_UP(x, d)
         /\ ALIGN_UP(x, d) < x + d
<1> DEFINE q == x \div d
           r == x % d
<1>1. q \in Nat /\ r \in 0 .. (d - 1) /\ x = d * q + r
  BY DivMod
<1>2. CASE r = 0
  <2>1. ALIGN_UP(x, d) = x
    BY <1>2 DEF ALIGN_UP
  <2> QED BY <2>1, <1>1, <1>2
<1>3. CASE r # 0
  <2>1. ALIGN_UP(x, d) = d * q + d
    BY <1>1, <1>3 DEF ALIGN_UP
  <2>2. d * q + d = d * (q + 1) + 0 /\ q + 1 \in Nat
    BY <1>1
  <2>3. ALIGN_UP(x, d) \div d = q + 1
    BY <2>1, <2>2, DivExact
  <2>4. d * q \in Nat
    BY <1>1
  <2> QED BY <2>1, <2>2, <2>3, <2>4, <1>1, <1>3
<1> QED BY <1>2, <1>3

\* A page's byte and bit in the bitmap determine the page.
LEMMA BitIndex ==
  /\ \A p \in Nat : p \div 8 \in Nat /\ p % 8 \in Bits /\ p = 8 * (p \div 8) + (p % 8)
  /\ \A p, q \in Nat : p \div 8 = q \div 8 /\ p % 8 = q % 8 => p = q
BY DEF Bits

-----------------------------------------------------------------------------
(***************************************************************************)
(* The bitmap.                                                             *)
(***************************************************************************)

\* The bound check of pmm_bitmap_set and pmm_bitmap_clear accepts exactly
\* the pages the bitmap has a bit for.
LEMMA TrackedIff ==
  ASSUME TypeOK, NEW p \in Nat
  PROVE  Tracked(p) <=> p \in TrackedPages
BY BitIndex DEF TypeOK, Tracked, TrackedPages, Bits

\* pmm_bitmap_set takes one page out of the free ones and touches no other.
LEMMA SetBit ==
  ASSUME TypeOK, NEW p \in Nat, Tracked(p),
         pmm_bitmap_set(p), bitmapSize' = bitmapSize
  PROVE  /\ bitmap' \in [0 .. (bitmapSize - 1) -> SUBSET Bits]
         /\ FreeBits' = FreeBits \ {p}
<1>1. p \div 8 \in 0 .. (bitmapSize - 1) /\ p % 8 \in Bits
  BY BitIndex DEF TypeOK, Tracked
<1>2. bitmap' = [bitmap EXCEPT ![p \div 8] = bitmap[p \div 8] \cup {p % 8}]
  BY DEF pmm_bitmap_set
<1>3. bitmap \in [0 .. (bitmapSize - 1) -> SUBSET Bits]
  BY DEF TypeOK
<1>4. bitmap' \in [0 .. (bitmapSize - 1) -> SUBSET Bits]
  BY <1>1, <1>2, <1>3
<1>5. ASSUME NEW q \in TrackedPages
      PROVE  Bit(q)' <=> Bit(q) \/ q = p
  <2>1. q \in Nat /\ q \div 8 \in 0 .. (bitmapSize - 1)
    BY TrackedIff, BitIndex DEF TrackedPages, TypeOK, Tracked
  <2>2. bitmap'[q \div 8] = IF q \div 8 = p \div 8
                            THEN bitmap[q \div 8] \cup {p % 8}
                            ELSE bitmap[q \div 8]
    BY <1>1, <1>2, <1>3, <2>1
  <2>3. q \div 8 = p \div 8 /\ q % 8 = p % 8 => q = p
    BY <2>1, BitIndex
  <2> QED BY <2>2, <2>3 DEF Bit
<1> QED BY <1>4, <1>5 DEF FreeBits, TrackedPages

\* pmm_bitmap_clear frees one page and touches no other.
LEMMA ClearBit ==
  ASSUME TypeOK, NEW p \in Nat, Tracked(p),
         pmm_bitmap_clear(p), bitmapSize' = bitmapSize
  PROVE  /\ bitmap' \in [0 .. (bitmapSize - 1) -> SUBSET Bits]
         /\ FreeBits' = FreeBits \cup {p}
<1>1. p \div 8 \in 0 .. (bitmapSize - 1) /\ p % 8 \in Bits
  BY BitIndex DEF TypeOK, Tracked
<1>2. bitmap' = [bitmap EXCEPT ![p \div 8] = bitmap[p \div 8] \ {p % 8}]
  BY DEF pmm_bitmap_clear
<1>3. bitmap \in [0 .. (bitmapSize - 1) -> SUBSET Bits]
  BY DEF TypeOK
<1>4. bitmap' \in [0 .. (bitmapSize - 1) -> SUBSET Bits]
  BY <1>1, <1>2, <1>3
<1>5. ASSUME NEW q \in TrackedPages
      PROVE  Bit(q)' <=> Bit(q) /\ q # p
  <2>1. q \in Nat /\ q \div 8 \in 0 .. (bitmapSize - 1)
    BY TrackedIff, BitIndex DEF TrackedPages, TypeOK, Tracked
  <2>2. bitmap'[q \div 8] = IF q \div 8 = p \div 8
                            THEN bitmap[q \div 8] \ {p % 8}
                            ELSE bitmap[q \div 8]
    BY <1>1, <1>2, <1>3, <2>1
  <2>3. q \div 8 = p \div 8 /\ q % 8 = p % 8 => q = p
    BY <2>1, BitIndex
  <2> QED BY <2>2, <2>3 DEF Bit
<1>6. p \in TrackedPages
  BY TrackedIff
<1> QED BY <1>4, <1>5, <1>6 DEF FreeBits, TrackedPages

-----------------------------------------------------------------------------
(***************************************************************************)
(* pmm_init.                                                               *)
(***************************************************************************)

\* The memory map is a sequence of entries with natural bases and lengths.
LEMMA EntryType ==
  ASSUME NEW mm \in MemMaps, NEW i \in DOMAIN mm
  PROVE  mm[i].base \in Nat /\ mm[i].length \in Nat
<1>1. mm \in Seq(MemMapEntries)
  BY PMMAssumption
<1>2. mm[i] \in MemMapEntries
  BY <1>1
<1> QED BY <1>2 DEF MemMapEntries

\* Usable pages are page frame numbers.
LEMMA UsableType ==
  ASSUME NEW mm \in MemMaps
  PROVE  UsablePages(mm) \subseteq Nat
<1>1. ASSUME NEW i \in DOMAIN mm PROVE EntryPages(mm[i]) \subseteq Nat
  <2>1. PageOf(mm[i].base) \in Nat
    BY EntryType, PMMAssumption, DivMod DEF PageOf
  <2> QED BY <2>1 DEF EntryPages
<1> QED BY <1>1 DEF UsablePages, UsableEntries

\* The size of the bitmap is a natural number of bytes.
LEMMA BitmapBytesType ==
  ASSUME NEW mm \in MemMaps
  PROVE  BitmapBytes(mm) \in Nat
<1>1. pmm_bitmap_last_tracked_page(mm) \in Nat
  <2>1. CASE \E i \in DOMAIN mm : IsLastUsable(mm, i)
    <3> DEFINE i == CHOOSE i \in DOMAIN mm : IsLastUsable(mm, i)
    <3>1. i \in DOMAIN mm
      BY <2>1
    <3>2. mm[i].base + mm[i].length \in Nat
      BY <3>1, EntryType
    <3>3. PageOf(mm[i].base + mm[i].length) \in Nat
      BY <3>2, PMMAssumption, DivMod DEF PageOf
    <3> QED BY <2>1, <3>3 DEF pmm_bitmap_last_tracked_page
  <2>2. CASE ~ \E i \in DOMAIN mm : IsLastUsable(mm, i)
    BY <2>2 DEF pmm_bitmap_last_tracked_page
  <2> QED BY <2>1, <2>2
<1>2. ALIGN_UP(pmm_bitmap_last_tracked_page(mm), 8) \in Nat
  BY <1>1, AlignUp
<1> QED BY <1>2, DivMod DEF BitmapBytes

\* An aligned address is its page number times the page size.
LEMMA AlignedPage ==
  ASSUME NEW a \in Nat, a % PAGE_SIZE = 0
  PROVE  PageOf(a) \in Nat /\ a = PAGE_SIZE * PageOf(a)
BY PMMAssumption, DivMod DEF PageOf

\* A multiple of the page size is the first address of its page.
LEMMA PageOfMultiple ==
  ASSUME NEW k \in Nat
  PROVE  PageOf(PAGE_SIZE * k) = k
BY PMMAssumption, DivExact DEF PageOf

\* An address below a multiple of the page size lies in a lower page.
LEMMA PageBelow ==
  ASSUME NEW a \in Nat, NEW k \in Nat, a < PAGE_SIZE * k
  PROVE  PageOf(a) \in Nat /\ PageOf(a) < k
<1> DEFINE d == PAGE_SIZE
           q == a \div d
<1>1. d \in Nat \ {0} /\ q \in Nat /\ a % d \in 0 .. (d - 1) /\ a = d * q + (a % d)
  BY PMMAssumption, DivMod
<1>2. d * q < d * k
  BY <1>1
<1>3. q < k
  BY <1>1, <1>2
<1> QED BY <1>1, <1>3 DEF PageOf

\* The entry that pmm_init picks holds the bitmap: its bytes lie in the pages
\* that are marked as allocated afterwards, and all of those it touches are
\* usable memory.
LEMMA BitmapPlace ==
  ASSUME NEW mm \in MemMaps, NEW bytes \in Nat \ {0}, NEW i \in DOMAIN mm,
         FirstEntryFor(mm, bytes, i)
  PROVE  /\ Shifted(mm[i]).base \in Nat
         /\ PagesTouched(Shifted(mm[i]).base, bytes)
              \subseteq StoragePages(Shifted(mm[i]).base, bytes)
         /\ PagesTouched(Shifted(mm[i]).base, bytes) \subseteq UsablePages(mm)
<1> DEFINE e == mm[i]
           phys == Shifted(e).base
           k == PageOf(phys)
           last == PageOf(phys + bytes - 1)
<1>1. /\ e.base \in Nat /\ e.length \in Nat
      /\ e.base % PAGE_SIZE = 0 /\ e.length % PAGE_SIZE = 0
      /\ i \in UsableEntries(mm)
      /\ e \in MemMapEntries
      /\ PAGE_SIZE \in Nat \ {0}
  BY EntryType, PMMAssumption DEF FirstEntryFor, UsableEntries
<1>2. /\ phys = IF e.base # 0 THEN e.base ELSE PAGE_SIZE
      /\ phys + bytes <= e.base + e.length
      /\ e.base <= phys
  BY <1>1 DEF FirstEntryFor, Shifted, MemMapEntries
<1>3. /\ phys \in Nat /\ phys % PAGE_SIZE = 0
      /\ k \in Nat /\ phys = PAGE_SIZE * k
  <2>1. PAGE_SIZE % PAGE_SIZE = 0
    BY <1>1
  <2>2. phys \in Nat /\ phys % PAGE_SIZE = 0
    BY <1>1, <1>2, <2>1
  <2> QED BY <2>2, AlignedPage
<1>4. PagesTouched(phys, bytes) = k .. last
  BY DEF PagesTouched
<1>5. phys + bytes - 1 \in Nat /\ last \in Nat
  <2>1. phys + bytes - 1 \in Nat
    BY <1>3
  <2> QED BY <1>1, <2>1, DivMod DEF PageOf
<1>6. k .. last \subseteq StoragePages(phys, bytes)
  <2> DEFINE m == ALIGN_UP(bytes, PAGE_SIZE) \div PAGE_SIZE
  <2>1. m \in Nat /\ bytes <= PAGE_SIZE * m
    BY <1>1, AlignUp, DivMod
  <2>2. PAGE_SIZE * (k + m) = PAGE_SIZE * k + PAGE_SIZE * m
    BY <1>1, <1>3, <2>1
  <2>3. phys + bytes - 1 < PAGE_SIZE * (k + m)
    BY <1>1, <1>3, <2>1, <2>2
  <2>4. last < k + m
    BY <1>3, <2>1, <2>3, PageBelow
  <2> QED BY <1>3, <1>5, <2>1, <2>4 DEF StoragePages
<1>7. k .. last \subseteq EntryPages(e)
  <2> DEFINE b == PageOf(e.base)
             t == b + PageOf(e.length)
  <2>1. /\ b \in Nat /\ e.base = PAGE_SIZE * b
        /\ PageOf(e.length) \in Nat /\ e.length = PAGE_SIZE * PageOf(e.length)
    BY <1>1, AlignedPage
  <2>2. e.base + e.length = PAGE_SIZE * t
    BY <1>1, <2>1
  <2>3. PageOf(e.base + e.length) = t
    BY <2>1, <2>2, PageOfMultiple
  <2>4. last < t
    <3>1. phys + bytes - 1 < PAGE_SIZE * t
      BY <1>1, <1>2, <1>3, <2>2
    <3> QED BY <1>5, <2>1, <3>1, PageBelow
  <2>5. b <= k
    BY <1>1, <1>2, <1>3, DivMonotone DEF PageOf
  <2> QED BY <1>3, <1>5, <2>1, <2>3, <2>4, <2>5 DEF EntryPages
<1> QED BY <1>1, <1>3, <1>4, <1>6, <1>7 DEF UsablePages

\* After pmm_init the free bits are exactly the pool.
LEMMA InitStep ==
  ASSUME IndInv, pmm_init
  PROVE  IndInv' /\ FreeBits' = Pool'
<1> DEFINE bytes == BitmapBytes(memmap)
<1>1. memmap \in MemMaps /\ bytes \in Nat \ {0}
  <2>1. memmap \in MemMaps /\ bytes \in Nat
    BY BitmapBytesType DEF IndInv, TypeOK
  <2>2. bytes # 0
    BY PMMAssumption DEF pmm_init, Holds
  <2> QED BY <2>1, <2>2
<1>2. PICK i \in DOMAIN memmap :
        /\ FirstEntryFor(memmap, bytes, i)
        /\ InitInBounds(memmap, Shifted(memmap[i]).base, bytes)
        /\ bitmapPhys' = Shifted(memmap[i]).base
        /\ bitmap' = BitmapAfterInit(memmap, Shifted(memmap[i]).base, bytes)
        /\ mem' = [p \in DOMAIN mem |->
                     IF p \in PagesTouched(Shifted(memmap[i]).base, bytes)
                     THEN "bitmap" ELSE mem[p]]
  BY DEF pmm_init
<1> DEFINE phys == Shifted(memmap[i]).base
<1>3. /\ phys \in Nat
      /\ PagesTouched(phys, bytes) \subseteq StoragePages(phys, bytes)
      /\ PagesTouched(phys, bytes) \subseteq UsablePages(memmap)
  BY <1>1, <1>2, BitmapPlace
<1>4. /\ pc' = "idle" /\ bitmapSize' = bytes /\ bitmapPhys' = phys
      /\ memmap' = memmap /\ owned' = owned /\ owned = {}
      /\ UNCHANGED scanVars
  BY <1>2 DEF pmm_init, IndInv, BootInv, Booted
<1>5. TypeOK'
  <2>1. bitmap' \in [0 .. (bytes - 1) -> SUBSET Bits]
    BY <1>2 DEF BitmapAfterInit
  <2>2. mem' \in [UsablePages(memmap) -> {"data", "poison", "bitmap"}]
    BY <1>2 DEF IndInv, TypeOK
  <2> QED BY <1>1, <1>3, <1>4, <2>1, <2>2 DEF TypeOK, IndInv, scanVars
<1>6. FreeBits' = Pool'
  <2>1. Pool' = UsablePages(memmap) \ (StoragePages(phys, bytes) \cup {0})
    BY <1>4 DEF Pool, Storage
  <2>2. ASSUME NEW p \in 0 .. (8 * bytes - 1)
        PROVE  Bit(p)' <=> \/ p \notin UsablePages(memmap)
                           \/ p \in StoragePages(phys, bytes)
                           \/ p = 0
    <3>1. /\ p \div 8 \in 0 .. (bytes - 1) /\ p % 8 \in Bits
          /\ 8 * (p \div 8) + (p % 8) = p
      BY <1>1, BitIndex DEF Bits
    <3>2. bitmap'[p \div 8] =
            {j \in Bits : \/ 8 * (p \div 8) + j \notin UsablePages(memmap)
                          \/ 8 * (p \div 8) + j \in StoragePages(phys, bytes)
                          \/ 8 * (p \div 8) + j = 0}
      BY <1>2, <3>1 DEF BitmapAfterInit
    <3> QED BY <3>1, <3>2 DEF Bit
  <2>3. UsablePages(memmap) \subseteq 0 .. (8 * bytes - 1)
    <3> SUFFICES ASSUME NEW p \in UsablePages(memmap)
                 PROVE  p \in 0 .. (8 * bytes - 1)
      OBVIOUS
    <3>1. p \in Nat /\ p \div 8 < bytes
      BY <1>1, <1>2, UsableType DEF InitInBounds
    <3> QED BY <1>1, <3>1, BitIndex DEF Bits
  <2>4. FreeBits' = {p \in 0 .. (8 * bytes - 1) : ~Bit(p)'}
    BY <1>4 DEF FreeBits, TrackedPages
  <2> QED BY <2>1, <2>2, <2>3, <2>4
<1>7. BootInv' /\ PartitionInv' /\ ScanInv' /\ PanicInv' /\ RunInv'
  BY <1>1, <1>4, <1>6
  DEF BootInv, Booted, NoLateAssert, PartitionInv, ScanInv, PanicInv, RunInv
<1>8. StorageInv'
  <2>1. \A p \in PagesTouched(phys, bytes) : mem'[p] = "bitmap"
    BY <1>2, <1>3 DEF IndInv, TypeOK
  <2> QED BY <1>3, <1>4, <2>1 DEF StorageInv, Booted, Storage
<1> QED BY <1>5, <1>6, <1>7, <1>8 DEF IndInv

-----------------------------------------------------------------------------
(***************************************************************************)
(* pmm_alloc.                                                              *)
(***************************************************************************)

\* What every step after boot leaves alone.
Settled == UNCHANGED <<memmap, bitmapSize, bitmapPhys>>

\* A step that leaves pmm_init's results alone leaves the pool alone.
LEMMA SettledPool ==
  ASSUME Settled
  PROVE  Pool' = Pool /\ Storage' = Storage /\ TrackedPages' = TrackedPages
BY DEF Settled, Pool, Storage, TrackedPages

\* The bits that are free depend on the bitmap and its size only.
LEMMA SettledBits ==
  ASSUME Settled, bitmap' = bitmap
  PROVE  FreeBits' = FreeBits
BY DEF Settled, FreeBits, TrackedPages, Bit

\* The bitmap's own pages stay what pmm_init made them.
LEMMA SettledStorage ==
  ASSUME IndInv, Settled, mem' = mem, Booted
  PROVE  StorageInv'
BY DEF IndInv, StorageInv, Settled, Storage

\* Between two calls, and while pmm_find_free_pages searches, free and owned
\* pages do not overlap.
LEMMA Apart ==
  ASSUME IndInv, pc \in {"idle", "scan", "panic"}
  PROVE  FreeBits \cap owned = {}
BY DEF IndInv, PartitionInv, InFlight, Booted

\* The call of pmm_alloc preserves the invariant.
LEMMA AllocStep ==
  ASSUME IndInv, NEW n \in Requests, pmm_alloc(n)
  PROVE  IndInv'
<1>1. /\ pc = "idle" /\ pc' = "scan" /\ Settled /\ bitmap' = bitmap
      /\ pages' = n /\ pos' = 0 /\ inChunk' = FALSE /\ found' = 0
      /\ UNCHANGED <<base, mem, owned>> /\ Booted
  BY DEF pmm_alloc, initVars, Settled, Booted
<1>2. FreeBits' = FreeBits /\ Pool' = Pool /\ TrackedPages' = TrackedPages
  BY <1>1, SettledBits, SettledPool
<1>3. TypeOK'
  BY <1>1, PMMAssumption DEF IndInv, TypeOK, Settled
<1>4. BootInv' /\ PanicInv' /\ RunInv'
  BY <1>1 DEF IndInv, BootInv, PanicInv, RunInv, Booted, NoLateAssert, Settled
<1>5. PartitionInv'
  <2>1. FreeBits \cap owned = {}
    BY <1>1, Apart
  <2> QED BY <1>1, <1>2, <2>1 DEF IndInv, PartitionInv
<1>6. ScanInv'
  <2>1. FreeBits \subseteq Nat /\ bitmapSize \in Nat /\ n \in Int
    BY PMMAssumption DEF FreeBits, TrackedPages, IndInv, TypeOK
  <2> QED BY <1>1, <1>2, <2>1 DEF ScanInv, Settled
<1>7. StorageInv'
  BY <1>1, SettledStorage
<1> QED BY <1>3, <1>4, <1>5, <1>6, <1>7 DEF IndInv

\* A page in use ends the chunk.
LEMMA ScanUsedStep ==
  ASSUME IndInv, ScanUsed
  PROVE  IndInv'
<1>1. /\ pc = "scan" /\ pc' = "scan" /\ Settled /\ bitmap' = bitmap
      /\ pos' = pos + 1 /\ inChunk' = FALSE /\ found' = 0
      /\ UNCHANGED <<base, pages, mem, owned>> /\ Booted
  BY DEF ScanUsed, initVars, Settled, Booted
<1>2. FreeBits' = FreeBits /\ Pool' = Pool /\ TrackedPages' = TrackedPages
  BY <1>1, SettledBits, SettledPool
<1>3. TypeOK'
  <2>1. pos' \in Nat /\ found' \in Nat
    BY <1>1 DEF IndInv, TypeOK
  <2>2. inChunk' \in BOOLEAN
    BY <1>1, Zenon
  <2> QED BY <1>1, <2>1, <2>2 DEF IndInv, TypeOK, Settled
<1>4. BootInv' /\ PanicInv' /\ RunInv'
  BY <1>1 DEF IndInv, BootInv, PanicInv, RunInv, Booted, NoLateAssert, Settled
<1>5. PartitionInv'
  <2>1. FreeBits \cap owned = {}
    BY <1>1, Apart
  <2> QED BY <1>1, <1>2, <2>1 DEF IndInv, PartitionInv
<1>6. ScanInv'
  <2>1. /\ FreeBits \subseteq Nat /\ bitmapSize \in Nat /\ pages \in Int /\ pos \in Nat
        /\ pos \notin FreeBits /\ pos + 1 <= 8 * bitmapSize
    <3>1. pos \in TrackedPages
      BY TrackedIff DEF ScanUsed, IndInv, TypeOK
    <3> QED BY <3>1 DEF ScanUsed, FreeBits, TrackedPages, IndInv, TypeOK
  <2>2. ASSUME pages >= 1, NEW c \in FreeBits, c + pages <= pos + 1,
               c .. (c + pages - 1) \subseteq FreeBits
        PROVE  FALSE
    <3>1. CASE c + pages <= pos
      BY <1>1, <2>1, <2>2, <3>1 DEF IndInv, ScanInv
    <3>2. CASE c + pages = pos + 1
      BY <2>1, <2>2, <3>2
    <3> QED BY <2>1, <2>2, <3>1, <3>2
  <2>3. pages \in Requests
    BY <1>1 DEF IndInv, ScanInv
  <2> QED BY <1>1, <1>2, <2>1, <2>2, <2>3 DEF ScanInv, Settled
<1>7. StorageInv'
  BY <1>1, SettledStorage
<1> QED BY <1>3, <1>4, <1>5, <1>6, <1>7 DEF IndInv

\* One more free page: the chunk grows by it, or starts with it.
LEMMA ChunkGrows ==
  ASSUME IndInv, ScanFree
  PROVE  /\ pages \in Int /\ pos \in Nat /\ pos \in FreeBits
         /\ base' \in Nat /\ found' \in Nat \ {0}
         /\ base' + found' = pos + 1
         /\ base' .. pos \subseteq FreeBits
         /\ base' - 1 \notin FreeBits
         /\ pos + 1 <= 8 * bitmapSize
         /\ pages >= 1 => found' <= pages
<1>1. /\ pc = "scan" /\ Tracked(pos) /\ ~Bit(pos)
      /\ base' = IF inChunk THEN base ELSE pos
      /\ found' = found + 1
  BY DEF ScanFree
<1>2. /\ pages \in Int /\ pos \in Nat /\ base \in Nat /\ found \in Nat
      /\ bitmapSize \in Nat /\ inChunk \in BOOLEAN
  BY DEF IndInv, TypeOK
<1>3. pos \in TrackedPages
  BY <1>1, <1>2, TrackedIff DEF IndInv
<1>4. pos \in FreeBits /\ pos + 1 <= 8 * bitmapSize
  BY <1>1, <1>2, <1>3 DEF FreeBits, TrackedPages
<1>5. CASE inChunk
  <2>1. /\ base + found = pos /\ base .. (pos - 1) \subseteq FreeBits
        /\ base - 1 \notin FreeBits /\ (pages >= 1 => found < pages)
    BY <1>1, <1>5 DEF IndInv, ScanInv
  <2> QED BY <1>1, <1>2, <1>4, <1>5, <2>1
<1>6. CASE ~inChunk
  <2>1. found = 0 /\ pos - 1 \notin FreeBits
    BY <1>1, <1>6 DEF IndInv, ScanInv
  <2> QED BY <1>1, <1>2, <1>4, <1>6, <2>1
<1> QED BY <1>2, <1>5, <1>6

\* The chunk is still too short.
LEMMA ScanFreeStep ==
  ASSUME IndInv, ScanFree, found' # pages
  PROVE  IndInv'
<1>1. /\ pc = "scan" /\ pc' = "scan" /\ Settled /\ bitmap' = bitmap
      /\ pos' = pos + 1 /\ inChunk' = TRUE
      /\ UNCHANGED <<pages, mem, owned>> /\ Booted
  BY DEF ScanFree, initVars, Settled, Booted
<1>2. FreeBits' = FreeBits /\ Pool' = Pool /\ TrackedPages' = TrackedPages
  BY <1>1, SettledBits, SettledPool
<1>3. TypeOK'
  <2>1. pos' \in Nat /\ inChunk' \in BOOLEAN /\ found' \in Nat /\ base' \in Nat
    BY <1>1, ChunkGrows DEF IndInv, TypeOK
  <2> QED BY <1>1, <2>1 DEF IndInv, TypeOK, Settled
<1>4. BootInv' /\ PanicInv' /\ RunInv'
  BY <1>1 DEF IndInv, BootInv, PanicInv, RunInv, Booted, NoLateAssert, Settled
<1>5. PartitionInv'
  <2>1. FreeBits \cap owned = {}
    BY <1>1, Apart
  <2> QED BY <1>1, <1>2, <2>1 DEF IndInv, PartitionInv
<1>6. ScanInv'
  <2>1. FreeBits \subseteq Nat
    BY DEF FreeBits, TrackedPages
  <2>2. ASSUME pages >= 1, NEW c \in FreeBits, c + pages <= pos + 1,
               c .. (c + pages - 1) \subseteq FreeBits
        PROVE  FALSE
    <3>1. CASE c + pages <= pos
      BY <1>1, <2>2, <3>1 DEF IndInv, ScanInv
    <3>2. CASE c + pages = pos + 1
      <4>1. c <= base' - 1 /\ base' - 1 <= c + pages - 1
        BY <2>1, <2>2, <3>2, ChunkGrows
      <4>2. base' - 1 \in c .. (c + pages - 1)
        BY <2>1, <4>1, ChunkGrows
      <4> QED BY <2>2, <4>2, ChunkGrows
    <3> QED BY <2>1, <2>2, <3>1, <3>2, ChunkGrows
  <2>3. pages \in Requests
    BY <1>1 DEF IndInv, ScanInv
  <2>4. pages >= 1 => found' < pages
    BY ChunkGrows
  <2>5. pos' - 1 = pos /\ bitmapSize' = bitmapSize
    BY <1>1, ChunkGrows DEF Settled
  <2> QED BY <1>1, <1>2, <2>2, <2>3, <2>4, <2>5, ChunkGrows DEF ScanInv
<1>7. StorageInv'
  BY <1>1, SettledStorage
<1> QED BY <1>3, <1>4, <1>5, <1>6, <1>7 DEF IndInv

\* The chunk is long enough: its pages are the caller's.
LEMMA FoundStep ==
  ASSUME IndInv, ScanFree, found' = pages
  PROVE  /\ IndInv'
         /\ base' .. (base' + pages - 1) \subseteq FreeBits
<1>1. /\ pc = "scan" /\ pc' = "mark" /\ Settled /\ bitmap' = bitmap
      /\ pos' = base' /\ inChunk' = TRUE
      /\ owned' = owned \cup (base' .. (base' + pages - 1))
      /\ UNCHANGED <<pages, mem>> /\ Booted
  BY DEF ScanFree, initVars, Settled, Booted
<1>2. FreeBits' = FreeBits /\ Pool' = Pool /\ TrackedPages' = TrackedPages
  BY <1>1, SettledBits, SettledPool
<1>3. base' .. (base' + pages - 1) \subseteq FreeBits /\ pages >= 1
  <2>1. base' + pages - 1 = pos
    BY ChunkGrows
  <2> QED BY <2>1, ChunkGrows
<1>4. FreeBits \subseteq TrackedPages /\ TrackedPages \subseteq Nat
  BY DEF FreeBits, TrackedPages
<1>5. TypeOK'
  <2>1. pos' \in Nat /\ inChunk' \in BOOLEAN /\ found' \in Nat /\ base' \in Nat
    BY <1>1, ChunkGrows DEF IndInv, TypeOK
  <2>2. owned' \subseteq Nat
    BY <1>1, <1>3, <1>4 DEF IndInv, TypeOK
  <2> QED BY <1>1, <2>1, <2>2 DEF IndInv, TypeOK, Settled
<1>6. BootInv' /\ PanicInv' /\ ScanInv'
  BY <1>1 DEF IndInv, BootInv, PanicInv, ScanInv, Booted, NoLateAssert, Settled
<1>7. RunInv'
  BY <1>1, <1>3, ChunkGrows DEF RunInv
<1>8. PartitionInv'
  <2>1. FreeBits \cap owned = {}
    BY <1>1, Apart
  <2>2. FreeBits \cup owned' = Pool /\ owned' \subseteq TrackedPages
    BY <1>1, <1>3, <1>4 DEF IndInv, PartitionInv
  <2>3. \A p \in FreeBits \cap owned' : InFlight(p)'
    BY <1>1, <1>3, <2>1, ChunkGrows DEF InFlight
  <2> QED BY <1>1, <1>2, <2>2, <2>3 DEF PartitionInv
<1>9. StorageInv'
  BY <1>1, SettledStorage
<1> QED BY <1>3, <1>5, <1>6, <1>7, <1>8, <1>9 DEF IndInv

\* The panic of pmm_find_free_pages preserves the invariant.
LEMMA PanicStep ==
  ASSUME IndInv, ScanPanic
  PROVE  IndInv'
<1>1. /\ pc = "scan" /\ pc' = "panic" /\ Settled /\ bitmap' = bitmap
      /\ UNCHANGED <<base, pages, pos, inChunk, found, mem, owned>> /\ Booted
  BY DEF ScanPanic, initVars, scanVars, Settled, Booted
<1>2. FreeBits' = FreeBits /\ Pool' = Pool /\ TrackedPages' = TrackedPages
  BY <1>1, SettledBits, SettledPool
<1>3. TypeOK'
  BY <1>1 DEF IndInv, TypeOK, Settled
<1>4. BootInv' /\ RunInv'
  BY <1>1 DEF IndInv, BootInv, RunInv, Booted, NoLateAssert, Settled
<1>5. PanicInv'
  BY <1>1 DEF ScanPanic, PanicInv, Tracked, Settled
<1>6. PartitionInv'
  <2>1. FreeBits \cap owned = {}
    BY <1>1, Apart
  <2> QED BY <1>1, <1>2, <2>1 DEF IndInv, PartitionInv
<1>7. ScanInv'
  <2>1. ScanInv
    BY DEF IndInv
  <2> QED BY <1>1, <1>2, <2>1 DEF ScanInv, Settled
<1>8. StorageInv'
  BY <1>1, SettledStorage
<1> QED BY <1>3, <1>4, <1>5, <1>6, <1>7, <1>8 DEF IndInv

\* What the two marking loops rely on: the page they are at is tracked.
LEMMA LoopPage ==
  ASSUME IndInv, pc \in {"mark", "clear"}
  PROVE  /\ Booted
         /\ base \in Nat /\ pages \in Nat \ {0} /\ pos \in Nat
         /\ base <= pos /\ pos <= base + pages
         /\ base .. (base + pages - 1) \subseteq owned
         /\ owned \subseteq Pool /\ owned \subseteq TrackedPages
         /\ pos < base + pages => pos \in owned /\ Tracked(pos)
<1>1. /\ Booted
      /\ base \in Nat /\ pages \in Nat \ {0} /\ pos \in Nat
      /\ base <= pos /\ pos <= base + pages
      /\ base .. (base + pages - 1) \subseteq owned
  BY DEF IndInv, TypeOK, RunInv, Booted
<1>2. owned \subseteq Pool /\ owned \subseteq TrackedPages
  BY <1>1 DEF IndInv, PartitionInv
<1>3. pos < base + pages => pos \in owned
  BY <1>1
<1>4. pos < base + pages => Tracked(pos)
  BY <1>1, <1>2, <1>3, TrackedIff DEF IndInv
<1> QED BY <1>1, <1>2, <1>3, <1>4

\* An iteration of pmm_alloc's loop preserves the invariant.
LEMMA MarkStep ==
  ASSUME IndInv, MarkPage
  PROVE  IndInv' /\ FreeBits' = FreeBits \ {pos} /\ pos \in owned
<1>1. pc = "mark" /\ pos < base + pages /\ pos \in owned /\ Tracked(pos) /\ Booted
  BY LoopPage DEF MarkPage
<1>2. /\ pc' = "mark" /\ Settled /\ pos' = pos + 1 /\ pmm_bitmap_set(pos)
      /\ UNCHANGED <<base, pages, inChunk, found, mem, owned>>
  BY <1>1 DEF MarkPage, initVars, Settled
<1>3. /\ bitmap' \in [0 .. (bitmapSize - 1) -> SUBSET Bits]
      /\ FreeBits' = FreeBits \ {pos}
  BY <1>1, <1>2, LoopPage, SetBit DEF IndInv, Settled
<1>4. TypeOK'
  <2>1. pos' \in Nat
    BY <1>1, <1>2, LoopPage
  <2> QED BY <1>2, <1>3, <2>1 DEF IndInv, TypeOK, Settled
<1>5. BootInv' /\ PanicInv' /\ ScanInv'
  BY <1>1, <1>2 DEF IndInv, BootInv, PanicInv, ScanInv, Booted, NoLateAssert, Settled
<1>6. RunInv'
  BY <1>1, <1>2, LoopPage DEF RunInv
<1>7. PartitionInv'
  <2>1. FreeBits' \cup owned = Pool /\ owned \subseteq TrackedPages
    BY <1>1, <1>3 DEF IndInv, PartitionInv
  <2>2. ASSUME NEW p \in FreeBits' \cap owned PROVE InFlight(p)'
    <3>1. InFlight(p) /\ p # pos
      BY <1>1, <1>3 DEF IndInv, PartitionInv
    <3>2. p \in Nat
      BY DEF IndInv, TypeOK
    <3> QED BY <1>1, <1>2, <3>1, <3>2, LoopPage DEF InFlight
  <2> QED BY <1>2, <2>1, <2>2, SettledPool DEF PartitionInv
<1>8. StorageInv'
  BY <1>1, <1>2, SettledStorage
<1> QED BY <1>1, <1>3, <1>4, <1>5, <1>6, <1>7, <1>8 DEF IndInv

\* The return of pmm_alloc preserves the invariant.
LEMMA MarkDoneStep ==
  ASSUME IndInv, MarkDone
  PROVE  IndInv'
<1>1. /\ pc = "mark" /\ pos = base + pages /\ pc' = "idle" /\ Settled /\ bitmap' = bitmap
      /\ UNCHANGED <<base, pages, pos, inChunk, found, mem, owned>> /\ Booted
  BY DEF MarkDone, initVars, scanVars, Settled, Booted
<1>2. FreeBits' = FreeBits /\ Pool' = Pool /\ TrackedPages' = TrackedPages
  BY <1>1, SettledBits, SettledPool
<1>3. TypeOK'
  BY <1>1 DEF IndInv, TypeOK, Settled
<1>4. BootInv' /\ RunInv' /\ PanicInv' /\ ScanInv'
  BY <1>1
  DEF IndInv, BootInv, RunInv, PanicInv, ScanInv, Booted, NoLateAssert, Settled
<1>5. PartitionInv'
  <2>1. ASSUME NEW p \in FreeBits \cap owned PROVE FALSE
    <3>1. InFlight(p) /\ p \in Nat
      BY <1>1 DEF IndInv, PartitionInv, TypeOK
    <3> QED BY <1>1, <3>1, LoopPage DEF InFlight
  <2> QED BY <1>1, <1>2, <2>1 DEF IndInv, PartitionInv
<1>6. StorageInv'
  BY <1>1, SettledStorage
<1> QED BY <1>3, <1>4, <1>5, <1>6 DEF IndInv

-----------------------------------------------------------------------------
(***************************************************************************)
(* pmm_free.                                                               *)
(***************************************************************************)
\* The call of pmm_free preserves the invariant.
LEMMA FreeStep ==
  ASSUME IndInv, NEW p \in owned, NEW n \in Frees, pmm_free(p * PAGE_SIZE, n)
  PROVE  IndInv'
<1>1. p \in Nat /\ n \in Int
  BY PMMAssumption DEF IndInv, TypeOK
<1>2. PageOf(p * PAGE_SIZE) = p
  <2>1. p * PAGE_SIZE = PAGE_SIZE * p
    BY <1>1, PMMAssumption
  <2> QED BY <1>1, <2>1, PageOfMultiple
<1>3. /\ pc = "idle" /\ pc' = "clear" /\ Settled /\ bitmap' = bitmap
      /\ base' = p /\ pages' = n /\ pos' = p /\ n >= 1
      /\ p .. (p + n - 1) \subseteq owned
      /\ UNCHANGED <<inChunk, found, mem, owned>> /\ Booted
  BY <1>2 DEF pmm_free, initVars, Settled, Booted
<1>4. FreeBits' = FreeBits /\ Pool' = Pool /\ TrackedPages' = TrackedPages
  BY <1>3, SettledBits, SettledPool
<1>5. TypeOK'
  <2>1. base' \in Nat /\ pages' \in Int /\ pos' \in Nat
    BY <1>1, <1>3
  <2> QED BY <1>3, <2>1 DEF IndInv, TypeOK, Settled
<1>6. BootInv' /\ PanicInv' /\ ScanInv'
  BY <1>3 DEF IndInv, BootInv, PanicInv, ScanInv, Booted, NoLateAssert, Settled
<1>7. RunInv'
  BY <1>1, <1>3 DEF RunInv
<1>8. PartitionInv'
  <2>1. FreeBits \cap owned = {}
    BY <1>3, Apart
  <2> QED BY <1>3, <1>4, <2>1 DEF IndInv, PartitionInv
<1>9. StorageInv'
  BY <1>3, SettledStorage
<1> QED BY <1>5, <1>6, <1>7, <1>8, <1>9 DEF IndInv

\* An iteration of pmm_free's loop preserves the invariant.
LEMMA ClearStep ==
  ASSUME IndInv, ClearPage
  PROVE  IndInv' /\ FreeBits' = FreeBits \cup {pos} /\ pos \in owned
<1>1. pc = "clear" /\ pos < base + pages /\ pos \in owned /\ Tracked(pos) /\ Booted
  BY LoopPage DEF ClearPage
<1>2. /\ pc' = "clear" /\ Settled /\ pos' = pos + 1 /\ pmm_bitmap_clear(pos)
      /\ UNCHANGED <<base, pages, inChunk, found, mem, owned>>
  BY <1>1 DEF ClearPage, initVars, Settled
<1>3. /\ bitmap' \in [0 .. (bitmapSize - 1) -> SUBSET Bits]
      /\ FreeBits' = FreeBits \cup {pos}
  BY <1>1, <1>2, LoopPage, ClearBit DEF IndInv, Settled
<1>4. TypeOK'
  <2>1. pos' \in Nat
    BY <1>1, <1>2, LoopPage
  <2> QED BY <1>2, <1>3, <2>1 DEF IndInv, TypeOK, Settled
<1>5. BootInv' /\ PanicInv' /\ ScanInv'
  BY <1>1, <1>2 DEF IndInv, BootInv, PanicInv, ScanInv, Booted, NoLateAssert, Settled
<1>6. RunInv'
  <2>1. base .. (pos - 1) \subseteq FreeBits
    BY <1>1 DEF IndInv, RunInv
  <2>2. base .. (pos' - 1) \subseteq FreeBits'
    BY <1>1, <1>2, <1>3, <2>1, LoopPage
  <2>3. pages \in Frees
    BY <1>1 DEF IndInv, RunInv
  <2> QED BY <1>1, <1>2, <2>2, <2>3, LoopPage DEF RunInv
<1>7. PartitionInv'
  <2>1. FreeBits' \cup owned = Pool /\ owned \subseteq TrackedPages
    BY <1>1, <1>3, LoopPage DEF IndInv, PartitionInv
  <2>2. ASSUME NEW p \in FreeBits' \cap owned PROVE InFlight(p)'
    <3>1. InFlight(p) \/ p = pos
      BY <1>1, <1>3 DEF IndInv, PartitionInv
    <3>2. p \in Nat
      BY DEF IndInv, TypeOK
    <3> QED BY <1>1, <1>2, <3>1, <3>2, LoopPage DEF InFlight
  <2> QED BY <1>2, <2>1, <2>2, SettledPool DEF PartitionInv
<1>8. StorageInv'
  BY <1>1, <1>2, SettledStorage
<1> QED BY <1>1, <1>3, <1>4, <1>5, <1>6, <1>7, <1>8 DEF IndInv

\* The memset of pmm_free covers the pages of the call and no others.
LEMMA PoisonedPages ==
  ASSUME base \in Nat, pages \in Nat \ {0}, pages \in Frees, FreesFit
  PROVE  PoisonBytes >= 0 /\ Poisoned = base .. (base + pages - 1)
<1> DEFINE d == PAGE_SIZE
           l == base + pages - 1
<1>1. d \in Nat \ {0} /\ l \in Nat /\ d - 1 \in 0 .. (d - 1)
  BY PMMAssumption
<1>2. base * d = d * base
  BY <1>1
<1>3. PageOf(base * d) = base
  BY <1>2, PageOfMultiple
<1>4. base * d + d * pages - 1 = d * l + (d - 1)
  <2>1. d * l = d * base + d * pages - d
    BY <1>1
  <2> QED BY <1>1, <2>1
<1>5. (d * l + (d - 1)) \div d = l
  BY <1>1, DivExact
<1>6. d * pages \in Nat \ {0}
  BY <1>1
<1>7. PoisonBytes = d * pages
  <2> DEFINE b == d * pages
  <2>1. b \in Nat /\ b < INT_MOD \div 2 /\ INT_MOD \in Nat \ {0}
    BY <1>6, PMMAssumption DEF FreesFit
  <2>2. PoisonBytes = LET n == b % INT_MOD IN IF n < INT_MOD \div 2 THEN n ELSE n - INT_MOD
    BY DEF PoisonBytes
  <2> HIDE DEF b
  <2>3. b < INT_MOD
    BY <2>1
  <2>4. b % INT_MOD = b
    BY <2>1, <2>3
  <2>5. PoisonBytes = b
    BY <2>1, <2>2, <2>4
  <2> QED BY <2>5 DEF b
<1> QED BY <1>3, <1>4, <1>5, <1>6, <1>7 DEF Poisoned, PagesTouched, PageOf

\* The memset and the return of pmm_free preserve the invariant.
LEMMA ClearDoneStep ==
  ASSUME IndInv, ClearDone, FreesFit
  PROVE  /\ IndInv'
         /\ pc' = "idle"
         /\ FreeBits' = FreeBits
         /\ base .. (base + pages - 1) \subseteq FreeBits
<1> DEFINE run == base .. (base + pages - 1)
<1>1. /\ pc = "clear" /\ pos = base + pages /\ pc' = "idle" /\ Settled /\ bitmap' = bitmap
      /\ mem' = [p \in DOMAIN mem |-> IF p \in Poisoned THEN "poison" ELSE mem[p]]
      /\ owned' = owned \ run
      /\ UNCHANGED <<base, pages, pos, inChunk, found>> /\ Booted
  <2>1. PoisonBytes >= 0 /\ PoisonBytes \in Int
    <3>1. pc = "clear" /\ pages \in Frees
      BY DEF ClearDone, IndInv, RunInv
    <3>2. PoisonBytes >= 0
      BY <3>1, LoopPage, PoisonedPages
    <3>3. (PAGE_SIZE * pages) % INT_MOD \in Int /\ INT_MOD \in Int
      BY <3>1, LoopPage, PMMAssumption
    <3> QED BY <3>2, <3>3 DEF PoisonBytes
  <2>2. ~ (PoisonBytes < 0)
    BY <2>1
  <2> QED BY <2>2 DEF ClearDone, initVars, scanVars, Settled, Booted
<1>2. FreeBits' = FreeBits /\ Pool' = Pool /\ TrackedPages' = TrackedPages
  BY <1>1, SettledBits, SettledPool
<1>3. run \subseteq FreeBits
  <2>1. base .. (pos - 1) \subseteq FreeBits
    BY <1>1 DEF IndInv, RunInv
  <2>2. pos - 1 = base + pages - 1
    BY <1>1, LoopPage
  <2> QED BY <2>1, <2>2
<1>4. TypeOK'
  <2>1. mem' \in [UsablePages(memmap) -> {"data", "poison", "bitmap"}]
    BY <1>1 DEF IndInv, TypeOK
  <2> QED BY <1>1, <2>1 DEF IndInv, TypeOK, Settled
<1>5. BootInv' /\ RunInv' /\ PanicInv' /\ ScanInv'
  BY <1>1
  DEF IndInv, BootInv, RunInv, PanicInv, ScanInv, Booted, NoLateAssert, Settled
<1>6. PartitionInv'
  <2>1. ASSUME NEW p \in FreeBits \cap owned' PROVE FALSE
    <3>1. InFlight(p) /\ p \in Nat /\ p \notin run
      BY <1>1 DEF IndInv, PartitionInv, TypeOK
    <3> QED BY <1>1, <3>1, LoopPage DEF InFlight
  <2> QED BY <1>1, <1>2, <1>3, <2>1 DEF IndInv, PartitionInv
<1>7. StorageInv'
  <2> DEFINE T == PagesTouched(bitmapPhys, bitmapSize)
  <2>1. /\ T \subseteq Storage /\ T \subseteq UsablePages(memmap)
        /\ \A p \in T : mem[p] = "bitmap"
    BY <1>1 DEF IndInv, StorageInv
  <2>2. run \cap Storage = {} /\ Poisoned = run
    <3>1. pages \in Frees
      BY <1>1 DEF IndInv, RunInv
    <3> QED BY <1>1, <3>1, LoopPage, PoisonedPages DEF Pool
  <2>3. \A p \in T : mem'[p] = "bitmap"
    BY <1>1, <2>1, <2>2 DEF IndInv, TypeOK
  <2> QED BY <1>1, <2>1, <2>3 DEF StorageInv, Settled, Storage
<1> QED BY <1>1, <1>2, <1>3, <1>4, <1>5, <1>6, <1>7 DEF IndInv

\* A store by the owner of a page preserves the invariant.
LEMMA WriteStep ==
  ASSUME IndInv, NEW w \in owned, OwnerWrite(w)
  PROVE  IndInv'
<1>1. /\ pc = "idle" /\ pc' = "idle" /\ Settled /\ bitmap' = bitmap
      /\ mem' = [mem EXCEPT ![w] = "data"]
      /\ UNCHANGED <<base, pages, pos, inChunk, found, owned>> /\ Booted
  BY DEF OwnerWrite, initVars, scanVars, Settled, Booted
<1>2. FreeBits' = FreeBits /\ Pool' = Pool /\ TrackedPages' = TrackedPages
  BY <1>1, SettledBits, SettledPool
<1>3. TypeOK'
  <2>1. mem' \in [UsablePages(memmap) -> {"data", "poison", "bitmap"}]
    BY <1>1 DEF IndInv, TypeOK
  <2> QED BY <1>1, <2>1 DEF IndInv, TypeOK, Settled
<1>4. BootInv' /\ RunInv' /\ PanicInv' /\ ScanInv'
  BY <1>1
  DEF IndInv, BootInv, RunInv, PanicInv, ScanInv, Booted, NoLateAssert, Settled
<1>5. PartitionInv'
  <2>1. FreeBits \cap owned = {}
    BY <1>1, Apart
  <2> QED BY <1>1, <1>2, <2>1 DEF IndInv, PartitionInv
<1>6. StorageInv'
  <2> DEFINE T == PagesTouched(bitmapPhys, bitmapSize)
  <2>1. /\ T \subseteq Storage /\ T \subseteq UsablePages(memmap)
        /\ \A p \in T : mem[p] = "bitmap"
    BY <1>1 DEF IndInv, StorageInv
  <2>2. w \notin Storage
    BY <1>1 DEF IndInv, PartitionInv, Pool
  <2>3. \A p \in T : mem'[p] = "bitmap"
    BY <1>1, <2>1, <2>2 DEF IndInv, TypeOK
  <2> QED BY <1>1, <2>1, <2>3 DEF StorageInv, Settled, Storage
<1> QED BY <1>3, <1>4, <1>5, <1>6 DEF IndInv

-----------------------------------------------------------------------------
(***************************************************************************)
(* The invariant.                                                          *)
(***************************************************************************)
\* The invariant holds before pmm_init.
LEMMA InitInv == Init => IndInv
<1> SUFFICES ASSUME Init PROVE IndInv
  OBVIOUS
<1>1. TypeOK
  <2>1. inChunk \in BOOLEAN
    BY Zenon DEF Init
  <2>2. bitmap \in [0 .. (bitmapSize - 1) -> SUBSET Bits]
    BY DEF Init
  <2>3. mem \in [UsablePages(memmap) -> {"data", "poison", "bitmap"}]
    BY DEF Init
  <2> QED BY <2>1, <2>2, <2>3 DEF Init, TypeOK
<1>2. /\ BootInv /\ PartitionInv /\ ScanInv /\ PanicInv /\ RunInv /\ StorageInv
  BY DEF Init, BootInv, PartitionInv, ScanInv, PanicInv, RunInv, StorageInv,
         Booted, NoLateAssert
<1> QED BY <1>1, <1>2 DEF IndInv

\* A failed assertion of pmm_init preserves the invariant.
LEMMA AssertStep ==
  ASSUME IndInv, pmm_init_assert
  PROVE  IndInv'
<1>1. /\ pc = "boot" /\ pc' = "initassert" /\ Settled
      /\ UNCHANGED <<bitmap, base, pages, pos, inChunk, found, mem, owned>>
  BY DEF pmm_init_assert, initVars, scanVars, Settled
<1>2. TypeOK'
  BY <1>1 DEF IndInv, TypeOK, Settled
<1>3. /\ BootInv' /\ PartitionInv' /\ ScanInv' /\ PanicInv' /\ RunInv' /\ StorageInv'
  BY <1>1 DEF IndInv, BootInv, PartitionInv, ScanInv, PanicInv, RunInv,
              StorageInv, Booted, NoLateAssert, Settled
<1> QED BY <1>2, <1>3 DEF IndInv

\* Where nothing changes the invariant is preserved.
LEMMA StutterStep ==
  ASSUME IndInv, UNCHANGED vars
  PROVE  IndInv'
<1>1. TypeOK'
  <2>1. TypeOK
    BY DEF IndInv
  <2> QED BY <2>1 DEF TypeOK, vars
<1>2. Settled /\ UNCHANGED <<pc, bitmap, base, pages, pos, inChunk, found, mem, owned>>
  BY DEF vars, Settled
<1>3. /\ FreeBits' = FreeBits /\ Pool' = Pool /\ TrackedPages' = TrackedPages
      /\ Storage' = Storage
  BY <1>2, SettledBits, SettledPool
<1>4. BootInv' /\ PartitionInv' /\ PanicInv'
  <2>1. BootInv /\ PartitionInv /\ PanicInv
    BY DEF IndInv
  <2>2. \A p : InFlight(p)' <=> InFlight(p)
    BY <1>2 DEF InFlight
  <2> QED BY <1>2, <1>3, <2>1, <2>2
          DEF BootInv, PartitionInv, PanicInv, Tracked, Booted, NoLateAssert, Settled
<1>5. ScanInv' /\ RunInv' /\ StorageInv'
  <2>1. ScanInv /\ RunInv /\ StorageInv
    BY DEF IndInv
  <2> QED BY <1>2, <1>3, <2>1 DEF ScanInv, RunInv, StorageInv, Booted, Settled
<1> QED BY <1>1, <1>4, <1>5 DEF IndInv

\* Every step of the allocator preserves the invariant.
LEMMA NextInv == FreesFit /\ IndInv /\ [Next]_vars => IndInv'
<1> SUFFICES ASSUME FreesFit, IndInv, [Next]_vars PROVE IndInv'
  OBVIOUS
<1>1. CASE pmm_init
  BY <1>1, InitStep
<1>2. CASE pmm_init_assert
  BY <1>2, AssertStep
<1>3. CASE \E n \in Requests : pmm_alloc(n)
  BY <1>3, AllocStep
<1>4. CASE Step
  BY <1>4, ScanUsedStep, ScanFreeStep, FoundStep, PanicStep, MarkStep,
     MarkDoneStep, ClearStep, ClearDoneStep
  DEF Step
<1>5. CASE \E p \in owned, n \in Frees : pmm_free(p * PAGE_SIZE, n)
  BY <1>5, FreeStep
<1>6. CASE \E p \in owned : OwnerWrite(p)
  BY <1>6, WriteStep
<1>7. CASE Halted \/ UNCHANGED vars
  BY <1>7, StutterStep DEF Halted
<1> QED BY <1>1, <1>2, <1>3, <1>4, <1>5, <1>6, <1>7 DEF Next

\* The inductive invariant holds throughout.
LEMMA Invariance == FreesFit => (Spec => []IndInv)
<1> SUFFICES ASSUME FreesFit PROVE Spec => []IndInv
  OBVIOUS
<1>1. IndInv /\ [Next]_vars => IndInv'
  BY NextInv
<1> QED BY InitInv, <1>1, PTL DEF Spec

\* The variables of pmm.c, of its loops and of the pages' contents keep the
\* types the code gives them, for every memory map and request sequence.
THEOREM TypeCorrect == FreesFit => (Spec => []TypeOK)
<1> SUFFICES ASSUME FreesFit PROVE Spec => []TypeOK
  OBVIOUS
<1>1. IndInv => TypeOK
  BY DEF IndInv
<1>2. Spec => []IndInv
  BY Invariance
<1> QED BY <1>1, <1>2, PTL

\* pmm_alloc never hands out memory that is not its to give, never the same
\* page to two callers; pmm_free loses no page; the bound checks of the
\* bitmap never fire after pmm_init; and nobody overwrites the bitmap.
THEOREM Safety ==
  FreesFit =>
    (Spec => [](OwnedFromPool /\ Conservation /\ NoLateAssert /\ BitmapIntact))
<1> SUFFICES ASSUME FreesFit
             PROVE  Spec => [](OwnedFromPool /\ Conservation /\ NoLateAssert /\ BitmapIntact)
  OBVIOUS
<1>1. IndInv => OwnedFromPool
  BY DEF IndInv, BootInv, PartitionInv, OwnedFromPool
<1>2. IndInv => Conservation
  <2> SUFFICES ASSUME IndInv, pc \in {"idle", "scan", "panic"}
               PROVE  FreeBits \cap owned = {} /\ FreeBits \cup owned = Pool
    BY DEF Conservation
  <2> QED BY Apart DEF IndInv, PartitionInv, Booted
<1>3. IndInv => NoLateAssert
  BY DEF IndInv, BootInv
<1>4. IndInv => BitmapIntact
  BY DEF IndInv, BootInv, StorageInv, BitmapIntact, TypeOK
<1>5. Spec => []IndInv
  BY Invariance
<1> QED BY <1>1, <1>2, <1>3, <1>4, <1>5, PTL

-----------------------------------------------------------------------------
(***************************************************************************)
(* Action property and refinement.                                         *)
(***************************************************************************)

\* After boot only a page's owner changes its contents, and pmm_free fills
\* every page it takes back with 0xff, if callers give back less than 2 GiB at
\* a time; the memset of a larger run has another length.
THEOREM Poisoning == FreesFit => (Spec => FreedPagesPoisoned)
<1> SUFFICES ASSUME FreesFit PROVE Spec => FreedPagesPoisoned
  OBVIOUS
<1> DEFINE A == pc # "boot" =>
                  \A p \in DOMAIN mem :
                    /\ mem'[p] # mem[p] => p \in owned
                    /\ p \in owned /\ p \notin owned' => mem'[p] = "poison"
<1>1. IndInv /\ [Next]_vars => A \/ UNCHANGED vars
  <2> SUFFICES ASSUME IndInv, Next, pc # "boot" PROVE A
    BY DEF vars
  <2>1. CASE ClearDone
    <3>1. /\ pc = "clear"
          /\ mem' = [p \in DOMAIN mem |-> IF p \in Poisoned THEN "poison" ELSE mem[p]]
          /\ owned' = owned \ (base .. (base + pages - 1))
      BY <2>1 DEF ClearDone
    <3>2. base .. (base + pages - 1) \subseteq owned
      BY <3>1, LoopPage
    <3>3. Poisoned = base .. (base + pages - 1)
      <4>1. pages \in Frees
        BY <3>1 DEF IndInv, RunInv
      <4> QED BY <3>1, <4>1, LoopPage, PoisonedPages
    <3> QED BY <3>1, <3>2, <3>3
  <2>2. CASE \E w \in owned : OwnerWrite(w)
    <3>1. PICK w \in owned : mem' = [mem EXCEPT ![w] = "data"]
      BY <2>2 DEF OwnerWrite
    <3>2. owned' = owned
      BY <2>2 DEF OwnerWrite
    <3>3. mem \in [UsablePages(memmap) -> {"data", "poison", "bitmap"}]
      BY DEF IndInv, TypeOK
    <3> QED BY <3>1, <3>2, <3>3
  <2>3. CASE ~ClearDone /\ ~ \E w \in owned : OwnerWrite(w)
    <3>1. mem' = mem /\ owned \subseteq owned'
      BY <2>3 DEF Next, Step, pmm_init, pmm_init_assert, pmm_alloc, ScanUsed,
                  ScanFree, ScanPanic, MarkPage, MarkDone, pmm_free, ClearPage,
                  Halted, vars
    <3> QED BY <3>1
  <2> QED BY <2>1, <2>2, <2>3
<1>2. Spec => []IndInv
  BY Invariance
<1> QED BY <1>1, <1>2, PTL DEF Spec, FreedPagesPoisoned

\* Steps the abstract allocator does not see.
LEMMA Invisible ==
  ASSUME Settled, owned' = owned, PhaseBar' = PhaseBar,
         FreeBits' \ owned = FreeBits \ owned
  PROVE  UNCHANGED Abstract!allocVars
BY DEF Abstract!allocVars, Settled

\* Membership in a run of pages.
LEMMA InRun ==
  ASSUME NEW b \in Nat, NEW c \in Nat, NEW n \in Nat \ {0}, NEW p \in Nat
  PROVE  /\ b \in b .. (b + n - 1)
         /\ c < b /\ b <= p /\ c + n > p => b - 1 \in c .. (c + n - 1)
OBVIOUS

\* pmm_init is the abstract boot.
LEMMA BootRefines ==
  ASSUME IndInv, pmm_init
  PROVE  Abstract!Boot
<1>1. FreeBits' = Pool'
  BY InitStep
<1>2. memmap' = memmap /\ owned' = owned /\ pc = "boot" /\ pc' = "idle"
  BY DEF pmm_init
<1>3. Pool' \subseteq UsablePages(memmap) \ {0}
  BY <1>2 DEF Pool
<1>4. PhaseBar = "boot" /\ PhaseBar' = "run"
  BY <1>2 DEF PhaseBar
<1> QED BY <1>1, <1>2, <1>3, <1>4 DEF Abstract!Boot

\* A failed assertion of pmm_init is the abstract boot failure.
LEMMA BootFailRefines ==
  ASSUME IndInv, pmm_init_assert
  PROVE  Abstract!BootFail
<1>1. /\ pc = "boot" /\ pc' = "initassert" /\ Settled
      /\ bitmap' = bitmap /\ owned' = owned
  BY DEF pmm_init_assert, initVars, Settled
<1>2. FreeBits' = FreeBits
  BY <1>1, SettledBits
<1>3. PhaseBar = "boot" /\ PhaseBar' = "halt"
  BY <1>1 DEF PhaseBar
<1> QED BY <1>1, <1>2, <1>3 DEF Abstract!BootFail, Settled

\* The chunk that pmm_find_free_pages returns is the lowest run of its length.
LEMMA AllocRefines ==
  ASSUME IndInv, ScanFree, found' = pages
  PROVE  pages \in Requests /\ Abstract!Alloc(base', pages)
<1> DEFINE run == base' .. (base' + pages - 1)
<1>1. /\ pc = "scan" /\ pc' = "mark" /\ Settled /\ bitmap' = bitmap
      /\ owned' = owned \cup run
  BY DEF ScanFree, initVars, Settled
<1>2. FreeBits' = FreeBits
  BY <1>1, SettledBits
<1>3. PhaseBar = "run" /\ PhaseBar' = "run"
  BY <1>1 DEF PhaseBar
<1>4. FreeBits \cap owned = {} /\ FreeBits \subseteq Nat
  BY <1>1, Apart DEF FreeBits, TrackedPages
<1>5. /\ run \subseteq FreeBits \ owned /\ pages \in Nat \ {0} /\ base' \in Nat
      /\ base' \in FreeBits \ owned
  <2>1. pages \in Nat \ {0} /\ base' \in Nat
    BY ChunkGrows
  <2>2. run \subseteq FreeBits
    BY FoundStep
  <2>3. base' \in run
    BY <2>1, InRun
  <2> QED BY <1>4, <2>1, <2>2, <2>3
<1>6. ASSUME NEW c \in FreeBits \ owned, c < base',
             c .. (c + pages - 1) \subseteq FreeBits \ owned
      PROVE  FALSE
  <2>1. CASE c + pages <= pos
    BY <1>1, <1>5, <1>6, <2>1 DEF IndInv, ScanInv
  <2>2. CASE c + pages > pos
    <3>1. c \in Nat /\ pos \in Nat /\ base' <= pos /\ base' - 1 \notin FreeBits
      BY <1>4, <1>5, ChunkGrows
    <3>2. base' - 1 \in c .. (c + pages - 1)
      BY <1>5, <1>6, <2>2, <3>1, InRun
    <3> QED BY <1>6, <3>1, <3>2
  <2>3. c \in Nat /\ pos \in Nat
    BY <1>4, ChunkGrows
  <2> QED BY <1>5, <2>1, <2>2, <2>3
<1>7. pages \in Requests
  BY <1>1 DEF IndInv, ScanInv
<1>8. Abstract!IsFirstFit(base', pages)
  BY <1>5, <1>6 DEF Abstract!IsFirstFit, Abstract!Run
<1>9. (FreeBits \ owned)' = (FreeBits \ owned) \ run
  BY <1>1, <1>2
<1> QED BY <1>1, <1>3, <1>5, <1>7, <1>8, <1>9
        DEF Abstract!Alloc, Abstract!Run, Settled

\* "Out of Memory!" is true.
LEMMA PanicRefines ==
  ASSUME IndInv, ScanPanic
  PROVE  pages \in Requests /\ Abstract!AllocPanic(pages)
<1>1. /\ pc = "scan" /\ pc' = "panic" /\ Settled /\ bitmap' = bitmap
      /\ owned' = owned /\ ~Tracked(pos)
  BY DEF ScanPanic, initVars, Settled
<1>2. FreeBits' = FreeBits
  BY <1>1, SettledBits
<1>3. PhaseBar = "run" /\ PhaseBar' = "halt"
  BY <1>1 DEF PhaseBar
<1>4. pages \in Requests /\ pages \in Int /\ pos \in Nat /\ bitmapSize \in Nat
  BY <1>1 DEF IndInv, ScanInv, TypeOK
<1>5. pos = 8 * bitmapSize
  <2>1. pos \notin TrackedPages
    BY <1>1, <1>4, TrackedIff DEF IndInv
  <2>2. pos <= 8 * bitmapSize
    BY <1>1 DEF IndInv, ScanInv
  <2> QED BY <1>4, <2>1, <2>2 DEF TrackedPages
<1>6. ASSUME pages >= 1, NEW c \in FreeBits \ owned,
             c .. (c + pages - 1) \subseteq FreeBits \ owned
      PROVE  FALSE
  <2>1. FreeBits \subseteq 0 .. (8 * bitmapSize - 1)
    BY DEF FreeBits, TrackedPages
  <2>2. c + pages - 1 \in FreeBits
    BY <1>4, <1>6, <2>1
  <2>3. c \in FreeBits /\ c + pages <= pos /\ c .. (c + pages - 1) \subseteq FreeBits
    BY <1>4, <1>5, <1>6, <2>1, <2>2
  <2> QED BY <1>1, <1>6, <2>3 DEF IndInv, ScanInv
<1> QED BY <1>1, <1>2, <1>3, <1>4, <1>6
        DEF Abstract!AllocPanic, Abstract!Run, Settled

\* The return of pmm_free is the abstract free.
LEMMA FreeRefines ==
  ASSUME IndInv, ClearDone, FreesFit
  PROVE  \E b, c \in owned : Abstract!Free(b, c - b + 1)
<1> DEFINE run == base .. (base + pages - 1)
           last == base + pages - 1
<1>1. /\ pc = "clear" /\ pc' = "idle" /\ Settled /\ owned' = owned \ run
  BY ClearDoneStep DEF ClearDone, initVars, Settled
<1>2. /\ base \in Nat /\ pages \in Nat \ {0} /\ run \subseteq owned
      /\ run \subseteq FreeBits /\ FreeBits' = FreeBits
  BY <1>1, LoopPage, ClearDoneStep
<1>3. base \in owned /\ last \in owned /\ last - base + 1 = pages
  BY <1>2
<1>4. (FreeBits \ owned)' = (FreeBits \ owned) \cup run
  BY <1>1, <1>2
<1>5. PhaseBar = "run" /\ PhaseBar' = "run"
  BY <1>1 DEF PhaseBar
<1>6. Abstract!Free(base, pages)
  BY <1>1, <1>2, <1>4, <1>5 DEF Abstract!Free, Abstract!Run, Settled
<1> QED BY <1>3, <1>6

\* Every step of pmm.c is a step of the abstract allocator or none.
LEMMA StepRefines ==
  ASSUME IndInv, [Next]_vars, FreesFit
  PROVE  [Abstract!AllocNext]_(Abstract!allocVars)
<1>1. CASE pmm_init
  BY <1>1, BootRefines DEF Abstract!AllocNext
<1>2. CASE pmm_init_assert
  BY <1>2, BootFailRefines DEF Abstract!AllocNext
<1>3. CASE ScanFree /\ found' = pages
  <2>1. pages \in Requests /\ Abstract!Alloc(base', pages)
    BY <1>3, AllocRefines
  <2>2. base' \in FreeBits \ owned
    BY <2>1 DEF Abstract!Alloc
  <2> QED BY <2>1, <2>2 DEF Abstract!AllocNext
<1>4. CASE ScanPanic
  BY <1>4, PanicRefines DEF Abstract!AllocNext
<1>5. CASE ClearDone
  BY <1>5, FreeRefines DEF Abstract!AllocNext
<1>6. CASE MarkPage
  <2>1. pc = "mark" /\ pc' = "mark" /\ Settled /\ owned' = owned
    BY <1>6, LoopPage DEF MarkPage, initVars, Settled
  <2>2. FreeBits' \ owned = FreeBits \ owned
    BY <1>6, MarkStep
  <2>3. PhaseBar' = PhaseBar
    BY <2>1 DEF PhaseBar
  <2> QED BY <2>1, <2>2, <2>3, Invisible
<1>7. CASE ClearPage
  <2>1. pc = "clear" /\ pc' = "clear" /\ Settled /\ owned' = owned
    BY <1>7, LoopPage DEF ClearPage, initVars, Settled
  <2>2. FreeBits' \ owned = FreeBits \ owned
    BY <1>7, ClearStep
  <2>3. PhaseBar' = PhaseBar
    BY <2>1 DEF PhaseBar
  <2> QED BY <2>1, <2>2, <2>3, Invisible
<1>8. CASE \/ \E n \in Requests : pmm_alloc(n)
           \/ ScanUsed
           \/ ScanFree /\ found' # pages
           \/ MarkDone
           \/ \E p \in owned, n \in Frees : pmm_free(p * PAGE_SIZE, n)
           \/ \E p \in owned : OwnerWrite(p)
  <2>1. /\ Settled /\ owned' = owned /\ bitmap' = bitmap
        /\ pc \in {"idle", "scan", "mark", "clear"}
        /\ pc' \in {"idle", "scan", "mark", "clear"}
    BY <1>8 DEF pmm_alloc, ScanUsed, ScanFree, MarkDone, pmm_free, OwnerWrite,
                initVars, Settled
  <2>2. FreeBits' = FreeBits
    BY <2>1, SettledBits
  <2>3. PhaseBar' = PhaseBar
    BY <2>1 DEF PhaseBar
  <2> QED BY <2>1, <2>2, <2>3, Invisible
<1>9. CASE Halted \/ UNCHANGED vars
  <2>1. Settled /\ UNCHANGED <<pc, bitmap, owned>>
    BY <1>9 DEF Halted, vars, Settled
  <2>2. FreeBits' = FreeBits /\ PhaseBar' = PhaseBar
    BY <2>1, SettledBits DEF PhaseBar
  <2> QED BY <2>1, <2>2, Invisible
<1> QED BY <1>1, <1>2, <1>3, <1>4, <1>5, <1>6, <1>7, <1>8, <1>9 DEF Next, Step

\* The bitmap allocator implements PageAllocator: first fit, nothing but
\* pool pages, and a panic only if there is no run of free pages that is
\* long enough.
THEOREM Refinement == FreesFit => (Spec => ImplementsAllocator)
<1> SUFFICES ASSUME FreesFit PROVE Spec => ImplementsAllocator
  OBVIOUS
<1>1. Init => Abstract!AllocInit
  <2> SUFFICES ASSUME Init PROVE Abstract!AllocInit
    OBVIOUS
  <2>1. PhaseBar = "boot"
    BY DEF Init, PhaseBar
  <2>2. FreeBits = {} /\ owned = {}
    BY DEF Init, FreeBits, TrackedPages
  <2> QED BY <2>1, <2>2 DEF Abstract!AllocInit
<1>2. IndInv /\ [Next]_vars => [Abstract!AllocNext]_(Abstract!allocVars)
  BY StepRefines
<1>3. Spec => []IndInv
  BY Invariance
<1> QED BY <1>1, <1>2, <1>3, PTL DEF Spec, ImplementsAllocator, Abstract!AllocSpec

-----------------------------------------------------------------------------
(***************************************************************************)
(* pmm_init succeeds where there is room.                                  *)
(***************************************************************************)

\* What else Limine promises of a memory map (usable entries are sorted by
\* address, do not overlap and are not empty) and what pmm_init takes for
\* granted: entry 0 is not the only usable one, the size of the bitmap is a
\* positive int, and no usable entry starts at an address that the int
\* condition of assert takes for NULL.
Orderly(mm) ==
  /\ \A i, j \in UsableEntries(mm) : i < j => mm[i].base + mm[i].length <= mm[j].base
  /\ \A i \in UsableEntries(mm) : mm[i].length > 0
  /\ UsableEntries(mm) # {1}
  /\ BitmapBytes(mm) < INT_MOD
  /\ \A i \in UsableEntries(mm) : Holds(Shifted(mm[i]).base + HHDM)

OrderlyMaps == \A mm \in MemMaps : Orderly(mm)

\* A set of natural numbers that is not empty has a least element.
LEMMA Least ==
  ASSUME NEW T \in SUBSET Nat, T # {}
  PROVE  \E x \in T : \A y \in T : x <= y
<1> DEFINE LT == {ss \in Nat \X Nat : ss[1] < ss[2]}
<1>1. IsWellFoundedOn(LT, Nat)
  BY NatLessThanWellFounded DEF OpToRel
<1>2. \A x, y \in Nat : <<y, x>> \in LT <=> y < x
  OBVIOUS
<1> HIDE DEF LT
<1>3. PICK x \in T : \A y \in T : ~ (<<y, x>> \in LT)
  BY <1>1, WFMin
<1>4. \A y \in T : x <= y
  <2> SUFFICES ASSUME NEW y \in T PROVE x <= y
    OBVIOUS
  <2>1. x \in Nat /\ y \in Nat /\ ~ (y < x)
    BY <1>2, <1>3
  <2> QED BY <2>1
<1> QED BY <1>4

\* Entries are numbered from 1 to the length of the map.
LEMMA EntryIndex ==
  ASSUME NEW mm \in MemMaps
  PROVE  Len(mm) \in Nat /\ DOMAIN mm = 1 .. Len(mm)
<1>1. mm \in Seq(MemMapEntries)
  BY PMMAssumption
<1> QED BY <1>1

\* The loop of pmm_bitmap_last_tracked_page finds the last usable entry.
LEMMA LastUsable ==
  ASSUME NEW mm \in MemMaps, UsableEntries(mm) # {}, UsableEntries(mm) # {1}
  PROVE  \E i \in DOMAIN mm : IsLastUsable(mm, i)
<1> DEFINE U == UsableEntries(mm)
           T == {n \in Nat : \A j \in U : j <= n}
<1>1. U \subseteq 1 .. Len(mm) /\ Len(mm) \in Nat /\ DOMAIN mm = 1 .. Len(mm)
  BY EntryIndex DEF UsableEntries
<1>2. Len(mm) \in T
  BY <1>1
<1>3. PICK m \in T : \A n \in T : m <= n
  <2> HIDE DEF T
  <2>1. T \in SUBSET Nat
    BY DEF T
  <2> QED BY <1>2, <2>1, Least
<1>4. PICK u \in U : u # 1
  OBVIOUS
<1>5. u \in Nat /\ u >= 2 /\ u <= m /\ m \in Nat
  BY <1>1, <1>3, <1>4
<1>6. m - 1 \in Nat /\ m - 1 \notin T
  BY <1>3, <1>5
<1>7. PICK j \in U : ~ (j <= m - 1)
  BY <1>6
<1>8. j = m
  BY <1>1, <1>3, <1>5, <1>7
<1>9. IsLastUsable(mm, m)
  BY <1>3, <1>5, <1>7, <1>8 DEF IsLastUsable
<1> QED BY <1>9 DEF IsLastUsable, UsableEntries

\* The bitmap has one bit for every page up to the last, and no byte more.
LEMMA BytesCover ==
  ASSUME NEW last \in Nat \ {0}
  PROVE  /\ ALIGN_UP(last, 8) \div 8 = (last - 1) \div 8 + 1
         /\ \A p \in 0 .. (last - 1) : p \div 8 < ALIGN_UP(last, 8) \div 8
<1> DEFINE a == ALIGN_UP(last, 8) \div 8
           u == ALIGN_UP(last, 8)
<1>1. a \in Nat /\ last <= 8 * a /\ 8 * a < last + 8
  <2>1. u \in Nat /\ u = 8 * (u \div 8) /\ last <= u /\ u < last + 8
    BY AlignUp
  <2>2. u \div 8 = a
    OBVIOUS
  <2> HIDE DEF u, a
  <2>3. u \div 8 \in Nat
    BY <2>1, DivMod
  <2> QED BY <2>1, <2>2, <2>3
<1> HIDE DEF a, u
<1>2. a = (last - 1) \div 8 + 1
  BY <1>1
<1> QED BY <1>2 DEF a, u

\* The pages of an entry whose base and length are multiples of a page.
LEMMA EntryPageBounds ==
  ASSUME NEW mm \in MemMaps, NEW i \in UsableEntries(mm)
  PROVE  /\ PageOf(mm[i].base) \in Nat /\ PageOf(mm[i].base + mm[i].length) \in Nat
         /\ mm[i].length > 0 => PageOf(mm[i].base) < PageOf(mm[i].base + mm[i].length)
<1>1. /\ i \in DOMAIN mm /\ mm[i].base \in Nat /\ mm[i].length \in Nat
      /\ mm[i].base % PAGE_SIZE = 0 /\ mm[i].length % PAGE_SIZE = 0
  BY EntryType, PMMAssumption DEF UsableEntries
<1> DEFINE b == PageOf(mm[i].base)
           l == PageOf(mm[i].length)
           d == PAGE_SIZE
<1>2. b \in Nat /\ mm[i].base = d * b /\ l \in Nat /\ mm[i].length = d * l /\ d \in Nat \ {0}
  BY <1>1, AlignedPage, PMMAssumption
<1>3. mm[i].base + mm[i].length = d * (b + l)
  BY <1>2
<1>4. PageOf(mm[i].base + mm[i].length) = b + l
  BY <1>2, <1>3, PageOfMultiple
<1>5. mm[i].length > 0 => l > 0
  BY <1>2
<1> QED BY <1>2, <1>4, <1>5

\* Every page that the bitmap is stored in belongs to the entry it was put in.
LEMMA StorageUsable ==
  ASSUME NEW mm \in MemMaps, NEW bytes \in Nat \ {0}, NEW i \in DOMAIN mm,
         FirstEntryFor(mm, bytes, i)
  PROVE  StoragePages(Shifted(mm[i]).base, bytes) \subseteq UsablePages(mm)
<1> DEFINE e == mm[i]
           s == Shifted(e)
           d == PAGE_SIZE
           k == PageOf(s.base)
           n == PageOf(s.length)
           m == ALIGN_UP(bytes, d) \div d
<1>1. /\ e.base \in Nat /\ e.length \in Nat
      /\ e.base % d = 0 /\ e.length % d = 0
      /\ i \in UsableEntries(mm)
      /\ e \in MemMapEntries
      /\ d \in Nat \ {0}
      /\ s.length >= bytes
  BY EntryType, PMMAssumption DEF FirstEntryFor, UsableEntries
<1> DEFINE b == PageOf(e.base)
           l == PageOf(e.length)
<1>2. b \in Nat /\ l \in Nat /\ e.base = d * b /\ e.length = d * l
  BY <1>1, AlignedPage
<1>3. /\ k \in Nat /\ s.base = d * k /\ b <= k
      /\ n \in Nat /\ s.length = d * n /\ k + n = b + l
  <2>1. CASE e.base # 0
    <3>1. s = e
      BY <2>1 DEF Shifted
    <3> QED BY <1>2, <3>1
  <2>2. CASE e.base = 0
    <3>1. /\ s.base = d
          /\ s.length = IF e.length >= d THEN e.length - d ELSE 0
      BY <1>1, <2>2 DEF Shifted, MemMapEntries
    <3>2. e.length >= d /\ s.length = e.length - d
      BY <1>1, <3>1
    <3>3. b = 0
      BY <1>1, <1>2, <2>2
    <3>4. l >= 1 /\ l - 1 \in Nat
      BY <1>1, <1>2, <3>2
    <3>5. s.base = d * 1 /\ s.length = d * (l - 1)
      BY <1>1, <1>2, <3>1, <3>2, <3>4
    <3>6. k = 1 /\ n = l - 1
      BY <3>4, <3>5, PageOfMultiple
    <3> QED BY <1>2, <3>3, <3>4, <3>5, <3>6
  <2> QED BY <2>1, <2>2
<1>4. m \in Nat /\ m <= n
  <2>1. m \in Nat /\ d * m < bytes + d
    BY <1>1, AlignUp, DivMod
  <2>2. d * m < d * n + d
    BY <1>1, <1>3, <2>1
  <2>3. d * n + d = d * (n + 1)
    BY <1>1, <1>3
  <2>4. m < n + 1
    BY <1>1, <1>3, <2>1, <2>2, <2>3
  <2> QED BY <1>3, <2>1, <2>4
<1>5. PageOf(e.base + e.length) = b + l
  <2>1. e.base + e.length = d * (b + l)
    BY <1>1, <1>2
  <2> QED BY <1>2, <2>1, PageOfMultiple
<1>6. StoragePages(s.base, bytes) = k .. (k + m - 1)
  BY DEF StoragePages
<1>7. EntryPages(e) = b .. (b + l - 1)
  <2>1. EntryPages(e) = PageOf(e.base) .. (PageOf(e.base + e.length) - 1)
    BY Zenon DEF EntryPages
  <2>2. EntryPages(e) = b .. (PageOf(e.base + e.length) - 1)
    BY <2>1 DEF b
  <2> HIDE DEF b, l, e
  <2>3. PageOf(e.base + e.length) = b + l
    BY <1>5
  <2>4. (b + l) - 1 = b + l - 1
    BY <1>2
  <2> QED BY <2>2, <2>3, <2>4, Zenon
<1>8. k .. (k + m - 1) \subseteq b .. (b + l - 1)
  BY <1>2, <1>3, <1>4
<1> QED BY <1>1, <1>6, <1>7, <1>8 DEF UsablePages

\* In an orderly map with an entry that has room for a bitmap of all usable
\* pages, pmm_init finds an entry and passes its assertions.
LEMMA RoomSuffices ==
  ASSUME NEW mm \in MemMaps, Orderly(mm), NEW i \in UsableEntries(mm),
         \A p \in UsablePages(mm) : p \div 8 < Shifted(mm[i]).length
  PROVE  /\ Holds(BitmapBytes(mm))
         /\ \E k \in DOMAIN mm :
              /\ FirstEntryFor(mm, BitmapBytes(mm), k)
              /\ Holds(Shifted(mm[k]).base + HHDM)
              /\ InitInBounds(mm, Shifted(mm[k]).base, BitmapBytes(mm))
<1> DEFINE U == UsableEntries(mm)
           bytes == BitmapBytes(mm)
           Top(j) == PageOf(mm[j].base + mm[j].length)
<1>1. /\ U \subseteq DOMAIN mm /\ U \subseteq Nat
      /\ \A j \in U : mm[j].base \in Nat /\ mm[j].length \in Nat /\ mm[j].length > 0
  BY EntryIndex, EntryType DEF UsableEntries, Orderly
<1>2. PICK z \in U : /\ \A j \in U : j <= z
                     /\ bytes = ALIGN_UP(Top(z), 8) \div 8
  <2>1. \E j \in DOMAIN mm : IsLastUsable(mm, j)
    BY LastUsable DEF Orderly
  <2> DEFINE z == CHOOSE j \in DOMAIN mm : IsLastUsable(mm, j)
  <2>2. IsLastUsable(mm, z)
    BY <2>1
  <2>3. pmm_bitmap_last_tracked_page(mm) = Top(z)
    BY <2>1 DEF pmm_bitmap_last_tracked_page
  <2>4. bytes = ALIGN_UP(Top(z), 8) \div 8
    BY <2>3 DEF BitmapBytes
  <2>5. z \in U /\ \A j \in U : j <= z
    BY <2>2 DEF IsLastUsable
  <2> QED BY <2>4, <2>5
<1> HIDE DEF bytes
<1>3. Top(z) \in Nat \ {0} /\ Top(z) - 1 \in UsablePages(mm)
  <2>1. /\ PageOf(mm[z].base) \in Nat /\ Top(z) \in Nat
        /\ PageOf(mm[z].base) < Top(z)
    BY <1>1, EntryPageBounds
  <2>2. Top(z) - 1 \in EntryPages(mm[z])
    BY <2>1 DEF EntryPages
  <2> QED BY <2>1, <2>2 DEF UsablePages
<1>4. /\ bytes = (Top(z) - 1) \div 8 + 1
      /\ \A p \in 0 .. (Top(z) - 1) : p \div 8 < bytes
  BY <1>2, <1>3, BytesCover
<1>5. bytes \in Nat \ {0}
  BY <1>3, <1>4
<1>6. Holds(bytes)
  <2>1. bytes < INT_MOD
    BY DEF Orderly, bytes
  <2> QED BY <1>5, <2>1, PMMAssumption DEF Holds
<1>7. \A j \in U : Shifted(mm[j]).length \in Nat
  <2> SUFFICES ASSUME NEW j \in U PROVE Shifted(mm[j]).length \in Nat
    OBVIOUS
  <2>1. mm[j] \in MemMapEntries /\ mm[j].length \in Nat
    BY <1>1, PMMAssumption
  <2> QED BY <2>1, PMMAssumption DEF Shifted, MemMapEntries
<1>8. Shifted(mm[i]).length >= bytes
  <2>1. (Top(z) - 1) \div 8 < Shifted(mm[i]).length
    BY <1>3
  <2>2. (Top(z) - 1) \div 8 \in Nat
    BY <1>3
  <2> QED BY <1>4, <1>7, <2>1, <2>2
<1>9. PICK k \in U : FirstEntryFor(mm, bytes, k)
  <2> DEFINE T == {j \in U : Shifted(mm[j]).length >= bytes}
  <2>1. T # {} /\ T \in SUBSET Nat
    BY <1>1, <1>8
  <2> HIDE DEF T
  <2>2. PICK k \in T : \A j \in T : k <= j
    BY <2>1, Least
  <2>3. k \in U /\ Shifted(mm[k]).length >= bytes
    BY <2>2 DEF T
  <2>4. \A j \in U : j < k => Shifted(mm[j]).length < bytes
    BY <1>1, <1>5, <1>7, <2>2, <2>3 DEF T
  <2> QED BY <2>3, <2>4 DEF FirstEntryFor
<1>10. InitInBounds(mm, Shifted(mm[k]).base, bytes)
  <2>1. StoragePages(Shifted(mm[k]).base, bytes) \subseteq UsablePages(mm)
    BY <1>1, <1>5, <1>9, StorageUsable
  <2>2. UsablePages(mm) \subseteq 0 .. (Top(z) - 1)
    <3> SUFFICES ASSUME NEW j \in U, NEW p \in EntryPages(mm[j])
                 PROVE  p \in 0 .. (Top(z) - 1)
      BY DEF UsablePages
    <3>1. mm[j].base + mm[j].length <= mm[z].base + mm[z].length
      <4>1. CASE j = z
        BY <1>1, <4>1
      <4>2. CASE j # z
        <5>1. j < z
          BY <1>1, <1>2, <4>2
        <5>2. mm[j].base + mm[j].length <= mm[z].base
          BY <5>1 DEF Orderly
        <5> QED BY <1>1, <5>2
      <4> QED BY <4>1, <4>2
    <3>2. Top(j) <= Top(z)
      <4>1. /\ mm[j].base + mm[j].length \in Nat
            /\ mm[z].base + mm[z].length \in Nat
            /\ PAGE_SIZE \in Nat \ {0}
        <5>1. /\ mm[j].base \in Nat /\ mm[j].length \in Nat
              /\ mm[z].base \in Nat /\ mm[z].length \in Nat
          BY <1>1
        <5>2. PAGE_SIZE \in Nat \ {0}
          BY PMMAssumption
        <5> HIDE DEF U
        <5> QED BY <5>1, <5>2
      <4>2. (mm[j].base + mm[j].length) \div PAGE_SIZE
              <= (mm[z].base + mm[z].length) \div PAGE_SIZE
        BY <3>1, <4>1, DivMonotone
      <4> QED BY <4>2 DEF PageOf
    <3>3. PageOf(mm[j].base) \in Nat /\ Top(j) \in Nat /\ Top(z) \in Nat
      BY EntryPageBounds
    <3> QED BY <3>2, <3>3 DEF EntryPages
  <2> QED BY <1>4, <2>1, <2>2 DEF InitInBounds
<1>11. Holds(Shifted(mm[k]).base + HHDM)
  BY DEF Orderly
<1> QED BY <1>1, <1>6, <1>9, <1>10, <1>11 DEF bytes

\* Wherever some usable entry has room for a bitmap of all usable pages,
\* none of pmm_init's assertions fails.
THEOREM BootsWhereRoom == OrderlyMaps => (Spec => []BootFailsOnlyWithoutRoom)
<1> SUFFICES ASSUME OrderlyMaps PROVE Spec => []BootFailsOnlyWithoutRoom
  OBVIOUS
<1> DEFINE I == BootFailsOnlyWithoutRoom
           M == memmap \in MemMaps
<1>1. Init => M /\ I
  BY DEF Init, BootFailsOnlyWithoutRoom
<1>2. M /\ I /\ [Next]_vars => (M /\ I)'
  <2> SUFFICES ASSUME M, I, [Next]_vars PROVE M' /\ (pc' = "initassert" => I')
    BY DEF BootFailsOnlyWithoutRoom
  <2>0. memmap' = memmap
    BY DEF Next, pmm_init, pmm_init_assert, pmm_alloc, Step, ScanUsed, ScanFree, ScanPanic,
           MarkPage, MarkDone, pmm_free, ClearPage, ClearDone, OwnerWrite, Halted,
           initVars, scanVars, vars
  <2> SUFFICES ASSUME pc' = "initassert" PROVE I'
    BY <2>0
  <2>1. pc = "initassert" \/ pmm_init_assert
    BY DEF Next, pmm_init, pmm_init_assert, pmm_alloc, Step, ScanUsed, ScanFree, ScanPanic,
           MarkPage, MarkDone, pmm_free, ClearPage, ClearDone, OwnerWrite, Halted,
           initVars, scanVars, vars
  <2>2. CASE pc = "initassert"
    BY <2>0, <2>2 DEF BootFailsOnlyWithoutRoom
  <2>3. CASE pmm_init_assert
    <3> SUFFICES ASSUME NEW i \in UsableEntries(memmap),
                        \A p \in UsablePages(memmap) : p \div 8 < Shifted(memmap[i]).length
                 PROVE  FALSE
      BY <2>0 DEF BootFailsOnlyWithoutRoom
    <3>1. memmap \in MemMaps /\ Orderly(memmap)
      BY DEF OrderlyMaps
    <3> QED BY <2>3, <3>1, RoomSuffices DEF pmm_init_assert
  <2> QED BY <2>1, <2>2, <2>3
<1> QED BY <1>1, <1>2, PTL DEF Spec
=============================================================================
