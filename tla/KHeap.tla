--------------------------------- MODULE KHeap ---------------------------------
(***************************************************************************)
(* The kernel heap, symphony/mm/kheap.c: a doubly linked list of blocks,   *)
(* searched first fit, in pages taken from the physical memory manager.    *)
(*                                                                         *)
(* kmalloc walks the list one block per step; kfree is one step.  Pages    *)
(* come from PageAllocator, the specification that PMM.tla implements, and *)
(* other parts of the kernel take and return pages between two calls.      *)
(* Addresses are relative to the HHDM offset, which is the same for all.   *)
(* Names ending in _mut are faulty variants of what follows them.          *)
(***************************************************************************)
EXTENDS Integers, FiniteSets

CONSTANTS
  PAGE_SIZE,         \* bytes per page
  KHEAP_INIT_PAGES,  \* pages of the initial heap
  HDR,               \* sizeof(struct kheap_block_header)
  WORD,              \* number of values of a size_t (2^64)
  INT_MOD,           \* number of values of an int (2^32)
  Pages,             \* the pages that pmm_init made available
  Sizes,             \* the sizes callers pass to kmalloc and kzalloc
  OtherRequests      \* the page counts other callers pass to pmm_alloc

ASSUME KHeapAssumption ==
  /\ PAGE_SIZE \in Nat /\ KHEAP_INIT_PAGES \in Nat \ {0}
  /\ HDR \in Nat \ {0} /\ HDR < PAGE_SIZE
  /\ WORD \in Nat \ {0} /\ WORD % PAGE_SIZE = 0
  /\ INT_MOD \in Nat \ {0}
  /\ Pages \subseteq Nat \ {0}
  /\ \A p \in Pages : (p + 1) * PAGE_SIZE <= WORD
  /\ Sizes \subseteq 0 .. (WORD - 1)
  /\ OtherRequests \subseteq Nat \ {0}

VARIABLES
  usable, phase, avail, owned,      \* the page allocator
  others,           \* pages that parts of the kernel other than the heap hold
  hdr,              \* the block headers in memory, by address
  blockListStart, blockListEnd,
  kheapSize, kheapSizeUsable,
  pc,               \* "boot", "idle", "walk" or "zero"
  bh,               \* the block kmalloc looks at
  request, size,    \* argument of the running call, before and after rounding
  zeroing,          \* the call is kzalloc
  depth,            \* recursion depth of kmalloc
  live,             \* pointers handed out, with the size asked for
  extents,          \* where the heap's runs of pages start
  filled            \* address and length of the step's memset

pageVars == <<usable, phase, avail, owned>>
listVars == <<hdr, blockListStart, blockListEnd, kheapSize, kheapSizeUsable, extents>>
callVars == <<bh, request, size, zeroing, depth>>
vars == <<pageVars, others, listVars, pc, callVars, live, filled>>

PMM == INSTANCE PageAllocator WITH Requests <- {}

NULL == 0

NoFill == <<0, 0>>

\* The locals of a call that has returned.
LocalsGone == bh' = NULL /\ request' = 0 /\ size' = 0 /\ zeroing' = FALSE /\ depth' = 0

-----------------------------------------------------------------------------
(***************************************************************************)
(* Arithmetic on size_t, and the list.                                     *)
(***************************************************************************)
Word(x) == x % WORD

ALIGN_UP(x, a) == IF x % a = 0 THEN x ELSE Word(x + (a - (x % a)))

\* kmalloc tests for a multiple of ten and aligns to sixteen.
Rounded(n) == IF n % 10 # 0 THEN ALIGN_UP(n, 16) ELSE n

ExtentBytes_mut(n) ==  \* forgets the header
  ALIGN_UP(n, PAGE_SIZE)

\* Bytes that kheap_extend takes from the page allocator.
ExtentBytes(n) == ALIGN_UP(Word(n + HDR), PAGE_SIZE)

\* The page count reaches pmm_alloc as an int.
PageCount(bytes) ==
  LET n == (bytes \div PAGE_SIZE) % INT_MOD
  IN  IF n >= INT_MOD \div 2 THEN n - INT_MOD ELSE n

End(b) == b + HDR + hdr[b].size

\* The first block is in S, and with every block the one after it.
Closed(S) ==
  /\ blockListStart \in S \cup {NULL}
  /\ \A b \in S : hdr[b].next \in S \cup {NULL}

\* The blocks that a walk from blockListStart along next comes to: those that
\* no such set can do without.
List == {b \in DOMAIN hdr : ~ \E S \in SUBSET (DOMAIN hdr \ {b}) : Closed(S)}

Header(sz, nx, pv) == [size |-> sz, free |-> TRUE, next |-> nx, prev |-> pv]

SetPrev(h, b, p) == IF b = NULL THEN h ELSE [h EXCEPT ![b].prev = p]

\* Headers of merged blocks stay in memory until the bytes lo .. hi-1 they
\* lie in are given to somebody.
Intact(lo, hi) ==
  [a \in {x \in DOMAIN hdr : x + HDR <= lo \/ hi <= x \/ x \in List} |-> hdr[a]]

\* Block a swallows the block c that follows it.
Absorb(h, a, c) ==
  SetPrev([h EXCEPT ![a].size = @ + h[c].size + HDR, ![a].next = h[c].next],
          h[c].next, a)

Touching_mut(h, a, c) ==  \* takes list neighbours for neighbours in memory
  a < c

Touching_mut_hdr(h, a, c) ==  \* forgets the header
  a + h[a].size = c

Touching(h, a, c) == a + h[a].size + HDR = c

-----------------------------------------------------------------------------
Init ==
  /\ usable = Pages /\ phase = "run" /\ avail = Pages /\ owned = {} /\ others = {}
  /\ hdr = [a \in {} |-> 0]
  /\ blockListStart = NULL /\ blockListEnd = NULL
  /\ kheapSize = 0 /\ kheapSizeUsable = 0 /\ extents = {}
  /\ pc = "boot"
  /\ bh = NULL /\ request = 0 /\ size = 0 /\ zeroing = FALSE /\ depth = 0
  /\ live = [p \in {} |-> 0]
  /\ filled = NoFill

kheap_init ==
  /\ pc = "boot" /\ phase = "run"
  /\ \E b \in avail :
       LET start == b * PAGE_SIZE
           bytes == KHEAP_INIT_PAGES * PAGE_SIZE
       IN  /\ PMM!Alloc(b, KHEAP_INIT_PAGES)
           /\ blockListStart' = start /\ blockListEnd' = start
           /\ hdr' = [a \in {start} |-> Header(bytes - HDR, NULL, NULL)]
           /\ kheapSize' = bytes /\ kheapSizeUsable' = bytes - HDR
           /\ extents' = {start}
           /\ filled' = <<start, HDR>>
  /\ pc' = "idle"
  /\ UNCHANGED <<others, callVars, live>>

\* pmm_alloc panics in kheap_init.
kheap_init_panic ==
  /\ pc = "boot"
  /\ PMM!AllocPanic(KHEAP_INIT_PAGES)
  /\ filled' = NoFill
  /\ UNCHANGED <<others, listVars, pc, callVars, live>>

-----------------------------------------------------------------------------
(***************************************************************************)
(* kmalloc and kzalloc.                                                    *)
(***************************************************************************)
kmalloc(n, z) ==
  /\ pc = "idle" /\ phase = "run"
  /\ pc' = "walk"
  /\ request' = n /\ size' = Rounded(n) /\ zeroing' = z
  /\ bh' = blockListStart /\ depth' = 0
  /\ filled' = NoFill
  /\ UNCHANGED <<pageVars, others, listVars, live>>

Fits_mut ==  \* counts the header as usable
  hdr[bh].free /\ hdr[bh].size + HDR >= size

Fits == hdr[bh].free /\ hdr[bh].size >= size

WalkOn_mut ==  \* does not go on to the next block
  /\ pc = "walk" /\ phase = "run" /\ bh # NULL
  /\ ~Fits
  /\ filled' = NoFill
  /\ UNCHANGED <<pageVars, others, listVars, pc, callVars, live>>

WalkOn ==
  /\ pc = "walk" /\ phase = "run" /\ bh # NULL
  /\ ~Fits
  /\ bh' = hdr[bh].next
  /\ filled' = NoFill
  /\ UNCHANGED <<pageVars, others, listVars, pc, request, size, zeroing, depth, live>>

\* return (void*)((uint64_t)bh + sizeof(struct kheap_block_header))
Return ==
  /\ live' = [p \in DOMAIN live \cup {bh + HDR} |->
                IF p = bh + HDR THEN request ELSE live[p]]
  /\ IF zeroing THEN pc' = "zero" /\ UNCHANGED callVars
                ELSE pc' = "idle" /\ LocalsGone

\* No room for another header behind the bytes asked for.
TooSmallToSplit == hdr[bh].size = size \/ hdr[bh].size <= Word(size + HDR)

TakeWhole_mut ==  \* the block stays free
  /\ pc = "walk" /\ phase = "run" /\ bh # NULL
  /\ Fits /\ TooSmallToSplit
  /\ hdr' = Intact(bh + HDR, End(bh))
  /\ Return
  /\ filled' = NoFill
  /\ UNCHANGED <<pageVars, others, blockListStart, blockListEnd, kheapSize,
                 kheapSizeUsable, extents>>

TakeWhole ==
  /\ pc = "walk" /\ phase = "run" /\ bh # NULL
  /\ Fits /\ TooSmallToSplit
  /\ hdr' = [Intact(bh + HDR, End(bh)) EXCEPT ![bh].free = FALSE]
  /\ Return
  /\ filled' = NoFill
  /\ UNCHANGED <<pageVars, others, blockListStart, blockListEnd, kheapSize,
                 kheapSizeUsable, extents>>

kheap_create_block_mut(h, b, sz) ==  \* the next block's prev is not set
  LET newbh == b + HDR + sz
      rest  == Header(h[b].size - (sz + HDR), h[b].next, b)
  IN  /\ hdr' = [a \in DOMAIN h \cup {newbh} |->
                   CASE a = newbh -> rest
                     [] a = b     -> [h[b] EXCEPT !.size = sz, !.next = newbh,
                                                  !.free = FALSE]
                     [] OTHER     -> h[a]]
      /\ blockListEnd' = IF b = blockListEnd THEN newbh ELSE blockListEnd
      /\ filled' = <<newbh, HDR>>

kheap_create_block(h, b, sz) ==
  LET newbh == b + HDR + sz
      rest  == Header(h[b].size - (sz + HDR), h[b].next, b)
      split == [a \in DOMAIN h \cup {newbh} |->
                  CASE a = newbh -> rest
                    [] a = b     -> [h[b] EXCEPT !.size = sz, !.next = newbh]
                    [] OTHER     -> h[a]]
  IN  /\ hdr' = [SetPrev(split, h[b].next, newbh) EXCEPT ![b].free = FALSE]
      /\ blockListEnd' = IF b = blockListEnd THEN newbh ELSE blockListEnd
      /\ filled' = <<newbh, HDR>>

TakeSplit_mut ==  \* leaves no room for the new header
  /\ pc = "walk" /\ phase = "run" /\ bh # NULL
  /\ Fits
  /\ hdr[bh].size > size
  /\ kheap_create_block(Intact(bh + HDR, bh + HDR + size + HDR), bh, size)
  /\ Return
  /\ UNCHANGED <<pageVars, others, blockListStart, kheapSize, kheapSizeUsable,
                 extents>>

TakeSplit ==
  /\ pc = "walk" /\ phase = "run" /\ bh # NULL
  /\ Fits /\ ~TooSmallToSplit
  /\ kheap_create_block(Intact(bh + HDR, bh + HDR + size + HDR), bh, size)
  /\ Return
  /\ UNCHANGED <<pageVars, others, blockListStart, kheapSize, kheapSizeUsable,
                 extents>>

\* No block is large enough: get more pages and start over.
kheap_extend ==
  /\ pc = "walk" /\ phase = "run" /\ bh = NULL
  /\ LET bytes == ExtentBytes(size) IN
     \E b \in avail :
       LET newbh == b * PAGE_SIZE IN
       /\ PMM!Alloc(b, PageCount(bytes))
       /\ hdr' = [a \in DOMAIN hdr \cup {newbh} |->
                    CASE a = newbh -> Header(bytes - HDR, NULL, blockListEnd)
                      [] a = blockListEnd -> [hdr[a] EXCEPT !.next = newbh]
                      [] OTHER -> hdr[a]]
       /\ blockListEnd' = newbh
       /\ kheapSize' = kheapSize + bytes
       /\ kheapSizeUsable' = kheapSizeUsable + bytes - HDR
       /\ extents' = extents \cup {newbh}
       /\ filled' = <<newbh, bytes>>
  /\ bh' = blockListStart
  /\ depth' = depth + 1
  /\ UNCHANGED <<others, blockListStart, pc, request, size, zeroing, live>>

kheap_extend_panic ==
  /\ pc = "walk" /\ phase = "run" /\ bh = NULL
  /\ PMM!AllocPanic(PageCount(ExtentBytes(size)))
  /\ filled' = NoFill
  /\ UNCHANGED <<others, listVars, pc, callVars, live>>

kzalloc_clear_mut ==  \* clears a page
  /\ pc = "zero"
  /\ filled' = <<bh + HDR, PAGE_SIZE>>
  /\ pc' = "idle"
  /\ LocalsGone
  /\ UNCHANGED <<pageVars, others, listVars, live>>

\* kzalloc clears as many bytes as it was asked for.
kzalloc_clear ==
  /\ pc = "zero"
  /\ filled' = <<bh + HDR, request>>
  /\ pc' = "idle"
  /\ LocalsGone
  /\ UNCHANGED <<pageVars, others, listVars, live>>

-----------------------------------------------------------------------------
(***************************************************************************)
(* kfree.                                                                  *)
(***************************************************************************)
kfree(p) ==
  LET b  == p - HDR
      h1 == [hdr EXCEPT ![b].free = TRUE]
      n  == h1[b].next
      withNext == n # NULL /\ h1[n].free /\ Touching(h1, b, n)
      h2 == IF withNext THEN Absorb(h1, b, n) ELSE h1
      e2 == IF withNext /\ n = blockListEnd THEN b ELSE blockListEnd
      v  == h2[b].prev
      withPrev == v # NULL /\ h2[v].free /\ Touching(h2, v, b)
  IN
  /\ pc = "idle" /\ phase = "run"
  /\ IF p = NULL \/ hdr[b].free
     THEN filled' = NoFill /\ UNCHANGED <<hdr, blockListEnd, live>>
     ELSE /\ hdr' = IF withPrev THEN Absorb(h2, v, b) ELSE h2
          /\ blockListEnd' = IF withPrev /\ b = e2 THEN v ELSE e2
          /\ filled' = <<p, hdr[b].size>>
          /\ live' = [q \in DOMAIN live \ {p} |-> live[q]]
  /\ UNCHANGED <<pageVars, others, blockListStart, kheapSize, kheapSizeUsable,
                 extents, pc, callVars>>

\* A caller frees what it holds, NULL, or once more what was freed before and
\* nobody has been given since: the header is still in memory.
Freeable == {NULL} \cup {a + HDR : a \in DOMAIN hdr}

-----------------------------------------------------------------------------
(***************************************************************************)
(* Other users of the page allocator.                                      *)
(***************************************************************************)
OtherAlloc(n) ==
  /\ pc \in {"boot", "idle"}
  /\ \E b \in avail : /\ PMM!Alloc(b, n)
                      /\ others' = others \cup PMM!Run(b, n)
  /\ filled' = NoFill
  /\ UNCHANGED <<listVars, pc, callVars, live>>

OtherFree(b, n) ==
  /\ pc \in {"boot", "idle"}
  /\ PMM!Run(b, n) \subseteq others
  /\ PMM!Free(b, n)
  /\ others' = others \ PMM!Run(b, n)
  /\ filled' = NoFill
  /\ UNCHANGED <<listVars, pc, callVars, live>>

Halted == phase = "halt" /\ UNCHANGED vars

Step ==
  \/ WalkOn \/ TakeWhole \/ TakeSplit \/ kheap_extend \/ kheap_extend_panic
  \/ kzalloc_clear

Next ==
  \/ kheap_init
  \/ kheap_init_panic
  \/ \E n \in Sizes, z \in BOOLEAN : kmalloc(n, z)
  \/ Step
  \/ \E p \in Freeable : kfree(p)
  \/ \E n \in OtherRequests : OtherAlloc(n)
  \/ \E b, c \in others : OtherFree(b, c - b + 1)
  \/ Halted

Spec == Init /\ [][Next]_vars

\* The CPU keeps executing the call it is in.
FairSpec == Spec /\ WF_vars(Step)

-----------------------------------------------------------------------------
(***************************************************************************)
(* Properties.                                                             *)
(***************************************************************************)
HeapPages == owned \ others

Addresses == 0 .. (WORD - 1)

PagesOf(a, n) ==
  IF n = 0 THEN {} ELSE (a \div PAGE_SIZE) .. ((a + n - 1) \div PAGE_SIZE)

Disjoint(a, m, b, n) == m = 0 \/ n = 0 \/ a + m <= b \/ b + n <= a

TypeOK ==
  /\ usable \subseteq Nat /\ avail \subseteq usable /\ owned \subseteq usable
  /\ phase \in {"run", "halt"}
  /\ others \subseteq owned
  /\ DOMAIN hdr \subseteq Addresses
  /\ \A a \in DOMAIN hdr :
       hdr[a] \in [size : Addresses, free : BOOLEAN, next : Addresses, prev : Addresses]
  /\ blockListStart \in Addresses /\ blockListEnd \in Addresses
  /\ kheapSize \in Nat /\ kheapSizeUsable \in Nat
  /\ pc \in {"boot", "idle", "walk", "zero"}
  /\ bh \in Addresses /\ request \in Addresses /\ size \in Addresses
  /\ zeroing \in BOOLEAN /\ depth \in Nat
  /\ DOMAIN live \subseteq Addresses
  /\ \A p \in DOMAIN live : live[p] \in Addresses
  /\ extents \subseteq Addresses
  /\ filled \in Addresses \X Nat

\* The list is one chain from blockListStart to blockListEnd, and prev undoes
\* next: no split, merge or extension loses a block or ties a knot.
ListLinked ==
  LET L == List IN
  pc # "boot" =>
    /\ blockListEnd \in L
    /\ hdr[blockListStart].prev = NULL
    /\ \A b \in L : IF hdr[b].next = NULL
                    THEN b = blockListEnd
                    ELSE hdr[hdr[b].next].prev = b

\* The blocks of the list tile the heap's pages: they do not overlap each
\* other, they lie in pages the heap got from pmm_alloc, every byte of these
\* pages is in one of them, and kheapSize says how many bytes that are.
BlocksTileHeap ==
  LET L == List IN
  pc # "boot" =>
    /\ \A b, c \in L : b # c => Disjoint(b, HDR + hdr[b].size, c, HDR + hdr[c].size)
    /\ \A b \in L : PagesOf(b, HDR + hdr[b].size) \subseteq HeapPages
    /\ \A p \in HeapPages : \A a \in (p * PAGE_SIZE) .. (p * PAGE_SIZE + PAGE_SIZE - 1) :
         \E b \in L : b <= a /\ a < End(b)
    /\ kheapSize = Cardinality(HeapPages) * PAGE_SIZE

\* A block header says "used" exactly while somebody holds its block.  For
\* the headers that merging took out of the list this is what makes kfree
\* recognise a pointer that was freed before.
UsedMeansHeld ==
  /\ \A a \in DOMAIN hdr : hdr[a].free <=> a + HDR \notin DOMAIN live
  /\ LET L == List IN \A p \in DOMAIN live : p - HDR \in L

\* Splitting, merging and extending do not show: a caller of kmalloc gets a
\* block that is at least as long as it asked for, lies in the heap's pages
\* and overlaps no other holder's block, and the block keeps its length until
\* it is freed (HeapSpec.tla).
Promise == INSTANCE HeapSpec
  WITH chunks <- [p \in DOMAIN live |-> hdr[p - HDR].size],
       pages <- HeapPages,
       asked <- IF pc = "walk" THEN request ELSE -1

ImplementsHeap == Promise!HeapSpecification

\* Two neighbouring free blocks exist only where kheap_extend appended a run
\* of pages; kfree leaves no fragmentation of its own making behind.
Coalesced ==
  \A b \in List :
    LET n == hdr[b].next IN
    n # NULL /\ hdr[b].free /\ hdr[n].free /\ End(b) = n => n \in extents

\* Where kmalloc has to extend the heap, the new block is large enough: the
\* recursion is one level deep.
RecursesOnce == depth <= 1

\* No memset of the heap (new pages, new headers, kzalloc, poison) touches
\* the bytes of a block that stays with its holder, nor a page that the heap
\* does not own.
FillStaysHome ==
  filled' # NoFill =>
    LET a == filled'[1]
        n == filled'[2]
    IN
    /\ PagesOf(a, n) \subseteq HeapPages'
    /\ \A p \in DOMAIN live \cap DOMAIN live' :
         (pc = "zero" /\ p = bh + HDR) \/ Disjoint(a, n, p, live[p])

WritesStayHome == [][FillStaysHome]_vars

\* kmalloc returns, or the machine is out of memory.
KmallocEnds == pc \in {"walk", "zero"} ~> (pc = "idle" \/ phase = "halt")
=============================================================================
