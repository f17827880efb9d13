------------------------------ MODULE KHeapProofs ------------------------------
(***************************************************************************)
(* Proofs about KHeap: for page pools, page sizes and requests of every    *)
(* size that does not overflow, the blocks stay a doubly linked list that  *)
(* tiles the heap's pages, and holders of blocks see the abstract heap.    *)
(***************************************************************************)
EXTENDS KHeap, TLAPS, FiniteSetTheorems

-----------------------------------------------------------------------------
(***************************************************************************)
(* Requests that do not overflow: rounded up and with a header, they are   *)
(* sizes, and so many pages that their number is an int.                   *)
(***************************************************************************)
NoOverflow ==
  \A n \in Sizes : /\ n + 16 + HDR + PAGE_SIZE <= WORD
                   /\ n + 16 + HDR + PAGE_SIZE <= (INT_MOD \div 2) * PAGE_SIZE

-----------------------------------------------------------------------------
(***************************************************************************)
(* The inductive invariant, in terms of the headers h, the first block s   *)
(* and the last block e, so that it can be said of the headers between two *)
(* stores of kfree too.                                                    *)
(***************************************************************************)
ClosedIn(h, s, S) ==
  /\ s \in S \cup {NULL}
  /\ \A b \in S : h[b].next \in S \cup {NULL}

ListIn(h, s) == {b \in DOMAIN h : ~ \E S \in SUBSET (DOMAIN h \ {b}) : ClosedIn(h, s, S)}

EndIn(h, b) == b + HDR + h[b].size

HeaderType == [size : Addresses, free : BOOLEAN, next : Addresses, prev : Addresses]

\* There are headers, NULL is the address of none, and what follows a header
\* has an address.
Headers(h) ==
  /\ DOMAIN h \subseteq Addresses \ {NULL}
  /\ \A a \in DOMAIN h : h[a] \in HeaderType /\ a + HDR \in Addresses

\* next and prev are inverses on the list, which ends in e.
LinkedIn(h, s, e) ==
  LET L == ListIn(h, s) IN
  /\ s \in L /\ e \in L
  /\ h[s].prev = NULL /\ h[e].next = NULL
  /\ \A b \in L : h[b].next = NULL => b = e
  /\ \A b \in L : h[b].next # NULL => h[b].next \in L /\ h[h[b].next].prev = b
  /\ \A b \in L : h[b].prev # NULL => h[b].prev \in L /\ h[h[b].prev].next = b

InPages(x, P) == x \div PAGE_SIZE \in P

\* The blocks of the list are apart, and their bytes are those of the pages P.
TiledIn(h, s, P) ==
  LET L == ListIn(h, s) IN
  /\ \A b \in L : EndIn(h, b) <= WORD
  /\ \A b, c \in L : b # c => EndIn(h, b) <= c \/ EndIn(h, c) <= b
  /\ \A b \in L : \A x \in b .. (EndIn(h, b) - 1) : InPages(x, P)
  /\ \A x \in Nat : InPages(x, P) => \E b \in L : b <= x /\ x < EndIn(h, b)

\* A header that merging took out of the list says free, and is in the heap.
StaleIn(h, s, P) ==
  \A a \in DOMAIN h : InPages(a, P) /\ (a \notin ListIn(h, s) => h[a].free)

CoalescedIn(h, s, X) ==
  \A b \in ListIn(h, s) :
    h[b].next # NULL /\ h[b].free /\ h[h[b].next].free /\ EndIn(h, b) = h[b].next
      => h[b].next \in X

\* Exactly the used blocks of the list have holders, and are long enough.
HeldIn(h, s, l) ==
  /\ \A b \in ListIn(h, s) : ~h[b].free => b + HDR \in DOMAIN l
  /\ \A p \in DOMAIN l : /\ p - HDR \in ListIn(h, s) /\ ~h[p - HDR].free
                         /\ l[p] <= h[p - HDR].size

HeapOK(h, s, e, P, X, l) ==
  /\ Headers(h)
  /\ LinkedIn(h, s, e)
  /\ TiledIn(h, s, P)
  /\ StaleIn(h, s, P)
  /\ CoalescedIn(h, s, X)
  /\ HeldIn(h, s, l)

PagesInv ==
  /\ usable = Pages /\ avail \subseteq Pages /\ owned \subseteq Pages
  /\ avail \cap owned = {} /\ others \subseteq owned

BootInv ==
  pc = "boot" => /\ DOMAIN hdr = {} /\ DOMAIN live = {} /\ HeapPages = {}
                 /\ blockListStart = NULL /\ depth = 0

HeapInv ==
  pc # "boot" =>
    /\ HeapOK(hdr, blockListStart, blockListEnd, HeapPages, extents, live)
    /\ IsFiniteSet(HeapPages) /\ kheapSize = Cardinality(HeapPages) * PAGE_SIZE

\* The walk is in the list; after an extension it will find the last block.
WalkInv ==
  /\ pc = "idle" => depth = 0
  /\ pc = "walk" =>
       /\ request \in Sizes /\ size = Rounded(request)
       /\ bh \in ListIn(hdr, blockListStart) \cup {NULL}
       /\ depth \in {0, 1}
       /\ depth = 1 => bh # NULL /\ hdr[blockListEnd].free /\ hdr[blockListEnd].size >= size
  /\ pc = "zero" =>
       /\ bh \in ListIn(hdr, blockListStart)
       /\ bh + HDR \in DOMAIN live /\ live[bh + HDR] = request /\ depth \in {0, 1}

IndInv == TypeOK /\ PagesInv /\ BootInv /\ HeapInv /\ WalkInv
-----------------------------------------------------------------------------
(***************************************************************************)
(* The list as the least closed set.                                       *)
(***************************************************************************)
LEMMA ListLeast ==
  ASSUME NEW h, NEW s, NEW S \in SUBSET DOMAIN h, ClosedIn(h, s, S)
  PROVE  ListIn(h, s) \subseteq S
<1> SUFFICES ASSUME NEW b \in ListIn(h, s), b \notin S PROVE FALSE
  OBVIOUS
<1>1. S \in SUBSET (DOMAIN h \ {b})
  OBVIOUS
<1> QED  BY <1>1 DEF ListIn

LEMMA ListIs ==
  ASSUME NEW h, NEW s, NEW T \in SUBSET DOMAIN h, ClosedIn(h, s, T),
         \A S \in SUBSET DOMAIN h : ClosedIn(h, s, S) => T \subseteq S
  PROVE  ListIn(h, s) = T
<1>1. ListIn(h, s) \subseteq T
  BY ListLeast
<1>2. ASSUME NEW b \in T PROVE b \in ListIn(h, s)
  <2>1. \A S \in SUBSET (DOMAIN h \ {b}) : S \in SUBSET DOMAIN h /\ b \notin S
    OBVIOUS
  <2> QED  BY <2>1 DEF ListIn
<1> QED  BY <1>1, <1>2

LEMMA ListFacts ==
  ASSUME NEW h, NEW s, NEW e, LinkedIn(h, s, e)
  PROVE  ListIn(h, s) \subseteq DOMAIN h /\ ClosedIn(h, s, ListIn(h, s))
BY DEF LinkedIn, ListIn, ClosedIn

LEMMA HeaderFacts ==
  ASSUME NEW h, Headers(h), NEW a \in DOMAIN h
  PROVE  /\ a \in Nat /\ a # NULL /\ a > 0
         /\ h[a].size \in Nat /\ h[a].free \in BOOLEAN
         /\ h[a].next \in Nat /\ h[a].prev \in Nat
         /\ EndIn(h, a) \in Nat /\ a + HDR <= EndIn(h, a) /\ a < EndIn(h, a)
BY KHeapAssumption DEF Headers, HeaderType, Addresses, NULL, EndIn

\* Neither flags nor headers outside the list matter to the list.
LEMMA SameLinks ==
  ASSUME NEW h, NEW s, NEW e, NEW g, LinkedIn(h, s, e),
         ListIn(h, s) \subseteq DOMAIN g, DOMAIN g \subseteq DOMAIN h,
         \A a \in DOMAIN g : /\ g[a].next = h[a].next /\ g[a].prev = h[a].prev
                             /\ g[a].size = h[a].size
  PROVE  /\ ListIn(g, s) = ListIn(h, s)
         /\ LinkedIn(g, s, e)
         /\ \A P : TiledIn(h, s, P) => TiledIn(g, s, P)
<1> DEFINE L == ListIn(h, s)
<1>1. L \subseteq DOMAIN h /\ ClosedIn(h, s, L)
  BY ListFacts
<1>2. ListIn(g, s) = L
  <2>1. ClosedIn(g, s, L)
    BY <1>1 DEF ClosedIn
  <2>2. ASSUME NEW S \in SUBSET DOMAIN g, ClosedIn(g, s, S) PROVE L \subseteq S
    <3>1. S \in SUBSET DOMAIN h /\ ClosedIn(h, s, S)
      BY <2>2 DEF ClosedIn
    <3> QED  BY <3>1, ListLeast
  <2> HIDE DEF L
  <2>3. L \in SUBSET DOMAIN g
    BY DEF L
  <2> QED  BY <2>1, <2>2, <2>3, ListIs
<1>3. LinkedIn(g, s, e)
  BY <1>2 DEF LinkedIn
<1>4. ASSUME NEW P, TiledIn(h, s, P) PROVE TiledIn(g, s, P)
  <2>1. \A b \in L : EndIn(g, b) = EndIn(h, b)
    BY DEF EndIn
  <2> QED  BY <1>2, <1>4, <2>1 DEF TiledIn
<1> QED  BY <1>2, <1>3, <1>4

-----------------------------------------------------------------------------
(***************************************************************************)
(* What the three changes of the list do to it.                            *)
(***************************************************************************)
\* Block a swallows its neighbour c, in the list and in memory.
Swallowed(h, g, a, c) ==
  /\ DOMAIN g = DOMAIN h
  /\ \A x \in DOMAIN h :
       /\ g[x].size = IF x = a THEN h[a].size + h[c].size + HDR ELSE h[x].size
       /\ g[x].next = IF x = a THEN h[c].next ELSE h[x].next
       /\ g[x].prev = IF x = h[c].next THEN a ELSE h[x].prev
       /\ g[x].free = h[x].free

LEMMA AbsorbSwallows ==
  ASSUME NEW h, Headers(h), NEW a \in DOMAIN h, NEW c \in DOMAIN h,
         h[c].next # NULL => h[c].next \in DOMAIN h
  PROVE  Swallowed(h, Absorb(h, a, c), a, c)
<1> DEFINE g1 == [h EXCEPT ![a].size = @ + h[c].size + HDR, ![a].next = h[c].next]
<1>1. \A x \in DOMAIN h : h[x] \in HeaderType
  BY DEF Headers
<1>2. /\ DOMAIN g1 = DOMAIN h
      /\ \A x \in DOMAIN h :
           /\ g1[x].size = IF x = a THEN h[a].size + h[c].size + HDR ELSE h[x].size
           /\ g1[x].next = IF x = a THEN h[c].next ELSE h[x].next
           /\ g1[x].prev = h[x].prev
           /\ g1[x].free = h[x].free
  BY <1>1 DEF HeaderType
<1>3. NULL \notin DOMAIN h
  BY DEF Headers
<1>4. CASE h[c].next = NULL
  <2>1. Absorb(h, a, c) = g1
    BY <1>4 DEF Absorb, SetPrev
  <2> HIDE DEF g1
  <2> QED  BY <1>2, <1>3, <1>4, <2>1 DEF Swallowed
<1>5. CASE h[c].next # NULL
  <2>1. Absorb(h, a, c) = [g1 EXCEPT ![h[c].next].prev = a]
    BY <1>5 DEF Absorb, SetPrev
  <2>2. \A x \in DOMAIN h : g1[x] = [size |-> g1[x].size, free |-> g1[x].free,
                                     next |-> g1[x].next, prev |-> g1[x].prev]
    BY <1>1 DEF HeaderType
  <2> HIDE DEF g1
  <2>3. h[c].next \in DOMAIN g1
    BY <1>2, <1>5
  <2>4. \A x \in DOMAIN h :
          LET g2 == [g1 EXCEPT ![h[c].next].prev = a] IN
           /\ g2[x].size = g1[x].size /\ g2[x].next = g1[x].next /\ g2[x].free = g1[x].free
           /\ g2[x].prev = IF x = h[c].next THEN a ELSE g1[x].prev
    BY <1>2, <2>2, <2>3
  <2>5. DOMAIN [g1 EXCEPT ![h[c].next].prev = a] = DOMAIN h
    BY <1>2
  <2> QED  BY <1>2, <2>1, <2>4, <2>5 DEF Swallowed
<1> QED  BY <1>4, <1>5

\* Block c follows block a, in the list and in memory.
Neighbours(h, s, a, c) ==
  a \in ListIn(h, s) /\ c \in ListIn(h, s) /\ h[a].next = c /\ EndIn(h, a) = c

\* What is left: the list without c, in the same pages P.
Shrunk(h, g, s, e, P, a, c) ==
  /\ a # c /\ ListIn(g, s) = ListIn(h, s) \ {c}
  /\ LinkedIn(g, s, IF e = c THEN a ELSE e)
  /\ TiledIn(g, s, P)
  /\ EndIn(g, a) = EndIn(h, c)

LEMMA SwallowLinks ==
  ASSUME NEW h, NEW s, NEW e, NEW g, NEW P, Headers(h), LinkedIn(h, s, e), TiledIn(h, s, P),
         NEW a, NEW c, Neighbours(h, s, a, c), Swallowed(h, g, a, c)
  PROVE  Shrunk(h, g, s, e, P, a, c)
<1> DEFINE L == ListIn(h, s)
           f == IF e = c THEN a ELSE e
<1> a \in L /\ c \in L /\ h[a].next = c /\ EndIn(h, a) = c
  BY DEF Neighbours
<1>1. L \subseteq DOMAIN h /\ ClosedIn(h, s, L)
  BY ListFacts
<1>2. \A x \in L : x \in Nat /\ x # NULL /\ h[x].size \in Nat /\ x < EndIn(h, x) /\ EndIn(h, x) \in Nat
  BY <1>1, HeaderFacts
<1>3. a # c /\ h[c].prev = a /\ c # s /\ h[c].next # c
  <2>1. a # c
    BY <1>2
  <2>2. h[c].prev = a
    BY <1>2 DEF LinkedIn
  <2>3. c # s
    BY <1>2, <2>2 DEF LinkedIn
  <2>4. h[c].next # c
    BY <1>2, <2>1, <2>2 DEF LinkedIn
  <2> QED  BY <2>1, <2>2, <2>3, <2>4
<1>4. /\ s \in L /\ e \in L /\ h[s].prev = NULL /\ h[e].next = NULL
      /\ \A b \in L : h[b].next = NULL => b = e
      /\ \A b \in L : h[b].next # NULL => h[b].next \in L /\ h[h[b].next].prev = b
      /\ \A b \in L : h[b].prev # NULL => h[b].prev \in L /\ h[h[b].prev].next = b
  BY DEF LinkedIn
<1>5. /\ DOMAIN g = DOMAIN h
      /\ \A x \in L :
           /\ g[x].size = IF x = a THEN h[a].size + h[c].size + HDR ELSE h[x].size
           /\ g[x].next = IF x = a THEN h[c].next ELSE h[x].next
           /\ g[x].prev = IF x = h[c].next THEN a ELSE h[x].prev
  BY <1>1 DEF Swallowed
<1>6. ListIn(g, s) = L \ {c}
  <2>1. ClosedIn(g, s, L \ {c})
    <3>1. s \in L \ {c}
      BY <1>3, <1>4
    <3>2. ASSUME NEW b \in L \ {c} PROVE g[b].next \in (L \ {c}) \cup {NULL}
      <4>1. CASE b = a
        BY <1>3, <1>4, <1>5, <4>1
      <4>2. CASE b # a
        <5>1. h[b].next # c
          BY <1>2, <1>3, <1>4, <4>2
        <5> QED  BY <1>4, <1>5, <4>2, <5>1
      <4> QED  BY <4>1, <4>2
    <3> QED  BY <3>1, <3>2 DEF ClosedIn
  <2>2. ASSUME NEW S \in SUBSET DOMAIN g, ClosedIn(g, s, S) PROVE L \ {c} \subseteq S
    <3>1. /\ S \in SUBSET DOMAIN h /\ S \cup {c} \in SUBSET DOMAIN h /\ s \in S
          /\ \A x \in S : g[x].next = IF x = a THEN h[c].next ELSE h[x].next
      BY <1>1, <1>2, <1>4, <2>2 DEF Swallowed, ClosedIn
    <3>2. CASE a \in S
      <4>1. h[c].next \in S \cup {NULL}
        BY <2>2, <3>1, <3>2 DEF ClosedIn
      <4>2. ClosedIn(h, s, S \cup {c})
        BY <2>2, <3>1, <4>1 DEF ClosedIn
      <4> QED  BY <3>1, <4>2, ListLeast
    <3>3. CASE a \notin S
      <4>1. ClosedIn(h, s, S)
        BY <2>2, <3>1, <3>3 DEF ClosedIn
      <4> QED  BY <3>1, <4>1, ListLeast
    <3> QED  BY <3>2, <3>3
  <2>3. L \ {c} \in SUBSET DOMAIN g
    BY <1>1, <1>5
  <2> HIDE DEF L
  <2> QED  BY <2>1, <2>2, <2>3, ListIs
<1>7. LinkedIn(g, s, f)
  <2> DEFINE M == L \ {c}
  <2>1. s \in M /\ f \in M /\ g[s].prev = NULL /\ g[f].next = NULL
    <3>1. s # h[c].next
      BY <1>2, <1>4
    <3>2. s \in M /\ g[s].prev = NULL
      BY <1>3, <1>4, <1>5, <3>1
    <3>3. CASE e = c
      BY <1>3, <1>4, <1>5, <3>2, <3>3
    <3>4. CASE e # c
      <4>1. e # a
        BY <1>2, <1>4
      <4> QED  BY <1>4, <1>5, <3>2, <3>4, <4>1
    <3> QED  BY <3>3, <3>4
  <2>2. ASSUME NEW b \in M, g[b].next = NULL PROVE b = f
    BY <1>2, <1>4, <1>5, <2>2
  <2>3. ASSUME NEW b \in M, g[b].next # NULL PROVE g[b].next \in M /\ g[g[b].next].prev = b
    <3>1. CASE b = a
      BY <1>3, <1>4, <1>5, <2>3, <3>1
    <3>2. CASE b # a
      <4>1. h[b].next \in M /\ g[b].next = h[b].next /\ h[b].next # h[c].next
        BY <1>2, <1>3, <1>4, <1>5, <2>3, <3>2
      <4>2. h[b].next \in L /\ h[h[b].next].prev = b
        BY <1>4, <2>3, <4>1
      <4>3. g[h[b].next].prev = b
        BY <1>5, <4>1, <4>2
      <4> QED  BY <4>1, <4>3
    <3> QED  BY <3>1, <3>2
  <2>4. ASSUME NEW b \in M, g[b].prev # NULL PROVE g[b].prev \in M /\ g[g[b].prev].next = b
    <3>1. CASE b = h[c].next
      BY <1>3, <1>5, <3>1
    <3>2. CASE b # h[c].next
      <4>1. g[b].prev = h[b].prev /\ h[b].prev \in L /\ h[h[b].prev].next = b
        BY <1>4, <1>5, <2>4, <3>2
      <4>2. h[b].prev # c /\ h[b].prev # a
        BY <3>2, <4>1
      <4> QED  BY <1>5, <4>1, <4>2
    <3> QED  BY <3>1, <3>2
  <2>5. ListIn(g, s) = M
    BY <1>6
  <2> HIDE DEF M
  <2> QED  BY <2>1, <2>2, <2>3, <2>4, <2>5 DEF LinkedIn
<1>8. /\ EndIn(g, a) = EndIn(h, c)
      /\ \A b \in L : b # a => EndIn(g, b) = EndIn(h, b)
  BY <1>2, <1>5, KHeapAssumption DEF EndIn
<1>9. TiledIn(g, s, P)
  <2> DEFINE M == L \ {c}
  <2>1. /\ \A b \in L : EndIn(h, b) <= WORD
        /\ \A b, d \in L : b # d => EndIn(h, b) <= d \/ EndIn(h, d) <= b
        /\ \A b \in L : \A x \in b .. (EndIn(h, b) - 1) : InPages(x, P)
        /\ \A x \in Nat : InPages(x, P) => \E b \in L : b <= x /\ x < EndIn(h, b)
    BY DEF TiledIn
  <2>2. ASSUME NEW b \in M PROVE EndIn(g, b) <= WORD
    BY <1>8, <2>1
  <2>3. ASSUME NEW b \in M, NEW d \in M, b # d PROVE EndIn(g, b) <= d \/ EndIn(g, d) <= b
    <3>1. ASSUME NEW x \in M, x # a PROVE EndIn(h, c) <= x \/ EndIn(h, x) <= a
      <4>1. EndIn(h, a) <= x \/ EndIn(h, x) <= a
        BY <2>1, <3>1
      <4>2. EndIn(h, c) <= x \/ EndIn(h, x) <= c
        BY <2>1, <3>1
      <4> QED  BY <1>2, <4>1, <4>2
    <3> QED  BY <1>8, <2>1, <2>3, <3>1
  <2>4. ASSUME NEW b \in M, NEW x \in b .. (EndIn(g, b) - 1) PROVE InPages(x, P)
    <3>1. CASE b = a
      <4>1. x \in a .. (EndIn(h, a) - 1) \/ x \in c .. (EndIn(h, c) - 1)
        BY <1>2, <1>8, <3>1
      <4> QED  BY <2>1, <4>1
    <3> QED  BY <1>8, <2>1, <3>1
  <2>5. ASSUME NEW x \in Nat, InPages(x, P) PROVE \E b \in M : b <= x /\ x < EndIn(g, b)
    <3>1. PICK b \in L : b <= x /\ x < EndIn(h, b)
      BY <2>1, <2>5
    <3>2. CASE b \in {a, c}
      <4>1. a <= x /\ x < EndIn(g, a) /\ a \in M
        BY <1>2, <1>3, <1>8, <3>1, <3>2
      <4> QED  BY <4>1
    <3>3. CASE b \notin {a, c}
      BY <1>8, <3>1, <3>3
    <3> QED  BY <3>2, <3>3
  <2>6. ListIn(g, s) = M
    BY <1>6
  <2> HIDE DEF M
  <2> QED  BY <2>2, <2>3, <2>4, <2>5, <2>6 DEF TiledIn
<1> QED  BY <1>3, <1>6, <1>7, <1>8, <1>9 DEF Shrunk

\* Block b keeps sz bytes and is used; the rest becomes a block of its own.
Parted(h, g, b, sz) ==
  LET new == b + HDR + sz IN
  /\ DOMAIN g = DOMAIN h \cup {new}
  /\ \A x \in DOMAIN g :
       /\ g[x].size = IF x = new THEN h[b].size - (sz + HDR) ELSE IF x = b THEN sz ELSE h[x].size
       /\ g[x].next = IF x = new THEN h[b].next ELSE IF x = b THEN new ELSE h[x].next
       /\ g[x].prev = IF x = new THEN b ELSE IF x = h[b].next THEN new ELSE h[x].prev
       /\ g[x].free = IF x = new THEN TRUE ELSE IF x = b THEN FALSE ELSE h[x].free

LEMMA CreateParts ==
  ASSUME NEW h, Headers(h), NEW b \in DOMAIN h, NEW sz \in Nat, sz + HDR < h[b].size,
         NEW new \in Addresses, new = b + HDR + sz, new \notin DOMAIN h, new + HDR \in Addresses,
         h[b].next # NULL => h[b].next \in DOMAIN h, h[b].next # b,
         kheap_create_block(h, b, sz)
  PROVE  Parted(h, hdr', b, sz) /\ Headers(hdr')
<1> DEFINE D == DOMAIN h \cup {new}
           rest == Header(h[b].size - (sz + HDR), h[b].next, b)
           split == [a \in D |->
                       CASE a = new -> rest
                         [] a = b   -> [h[b] EXCEPT !.size = sz, !.next = new]
                         [] OTHER   -> h[a]]
           g2 == SetPrev(split, h[b].next, new)
           Is(r, s, f, n, p) == /\ r \in HeaderType /\ r.size = s /\ r.free = f
                                /\ r.next = n /\ r.prev = p
<1>1. \A x \in DOMAIN h : h[x] \in HeaderType /\ x # NULL /\ x \in Addresses /\ x + HDR \in Addresses
  BY DEF Headers
<1>2. hdr' = [g2 EXCEPT ![b].free = FALSE]
  BY DEF kheap_create_block
<1>3. new # b /\ new # NULL
  BY <1>1, KHeapAssumption DEF Addresses, NULL
<1>4. sz \in Addresses /\ h[b].size - (sz + HDR) \in Addresses
  BY <1>1, KHeapAssumption DEF HeaderType, Addresses
<1>5. /\ DOMAIN split = D
      /\ Is(split[new], h[b].size - (sz + HDR), TRUE, h[b].next, b)
      /\ Is(split[b], sz, h[b].free, new, h[b].prev)
      /\ \A x \in DOMAIN h \ {b} : split[x] = h[x]
  <2>1. split[new] = rest
    BY <1>3
  <2>2. split[b] = [h[b] EXCEPT !.size = sz, !.next = new]
    BY <1>3
  <2>3. Is([h[b] EXCEPT !.size = sz, !.next = new], sz, h[b].free, new, h[b].prev)
    BY <1>1, <1>4 DEF HeaderType
  <2>4. Is(rest, h[b].size - (sz + HDR), TRUE, h[b].next, b)
    BY <1>1, <1>4 DEF Header, HeaderType
  <2>5. ASSUME NEW x \in DOMAIN h \ {b} PROVE split[x] = h[x]
    <3>1. x # new /\ x # b
      OBVIOUS
    <3> QED  BY <3>1
  <2> QED  BY <2>1, <2>2, <2>3, <2>4, <2>5
<1> HIDE DEF split
<1>6. /\ DOMAIN g2 = D
      /\ Is(g2[new], h[b].size - (sz + HDR), TRUE, h[b].next, b)
      /\ Is(g2[b], sz, h[b].free, new, h[b].prev)
      /\ \A x \in DOMAIN h \ {b} :
           Is(g2[x], h[x].size, h[x].free, h[x].next, IF x = h[b].next THEN new ELSE h[x].prev)
  <2>1. CASE h[b].next = NULL
    <3>1. g2 = split
      BY <2>1 DEF SetPrev
    <3>2. \A x \in DOMAIN h : x # h[b].next
      BY <1>1, <2>1
    <3> HIDE DEF g2
    <3> QED  BY <1>1, <1>5, <3>1, <3>2
  <2>2. CASE h[b].next # NULL
    <3>1. g2 = [split EXCEPT ![h[b].next].prev = new]
      BY <2>2 DEF SetPrev
    <3>2. h[b].next \in D /\ h[b].next # b /\ h[b].next # new
      BY <2>2
    <3>3. DOMAIN g2 = D /\ \A x \in D : x # h[b].next => g2[x] = split[x]
      BY <1>5, <3>1
    <3>4. g2[h[b].next] = [h[h[b].next] EXCEPT !.prev = new]
      BY <1>5, <2>2, <3>1, <3>2
    <3> HIDE DEF g2
    <3>5. ASSUME NEW x \in DOMAIN h \ {b}
          PROVE  Is(g2[x], h[x].size, h[x].free, h[x].next,
                    IF x = h[b].next THEN new ELSE h[x].prev)
      <4>1. CASE x = h[b].next
        BY <1>1, <3>4, <4>1 DEF HeaderType
      <4>2. CASE x # h[b].next
        BY <1>1, <1>5, <3>3, <4>2
      <4> QED  BY <4>1, <4>2
    <3> QED  BY <1>5, <3>2, <3>3, <3>5
  <2> QED  BY <2>1, <2>2
<1> HIDE DEF g2
<1>7. /\ DOMAIN hdr' = D
      /\ Is(hdr'[b], sz, FALSE, new, h[b].prev)
      /\ \A x \in D \ {b} : hdr'[x] = g2[x]
  <2>1. DOMAIN hdr' = D /\ hdr'[b] = [g2[b] EXCEPT !.free = FALSE]
    BY <1>2, <1>6
  <2>2. Is([g2[b] EXCEPT !.free = FALSE], sz, FALSE, new, h[b].prev)
    BY <1>6 DEF HeaderType
  <2>3. \A x \in D \ {b} : hdr'[x] = g2[x]
    BY <1>2, <1>6
  <2> QED  BY <2>1, <2>2, <2>3
<1>8. ASSUME NEW x \in D
      PROVE  Is(hdr'[x],
                IF x = new THEN h[b].size - (sz + HDR) ELSE IF x = b THEN sz ELSE h[x].size,
                IF x = new THEN TRUE ELSE IF x = b THEN FALSE ELSE h[x].free,
                IF x = new THEN h[b].next ELSE IF x = b THEN new ELSE h[x].next,
                IF x = new THEN b ELSE IF x = h[b].next THEN new ELSE h[x].prev)
  <2>1. CASE x = new
    <3>1. hdr'[x] = g2[new]
      BY <1>3, <1>7, <2>1
    <3> QED  BY <1>6, <2>1, <3>1
  <2>2. CASE x = b
    BY <1>3, <1>7, <2>2
  <2>3. CASE x # new /\ x # b
    <3>1. hdr'[x] = g2[x] /\ x \in DOMAIN h \ {b}
      BY <1>7, <2>3
    <3> QED  BY <1>6, <2>3, <3>1
  <2> QED  BY <2>1, <2>2, <2>3
<1>9. Parted(h, hdr', b, sz)
  BY <1>7, <1>8 DEF Parted
<1>10. Headers(hdr')
  BY <1>1, <1>3, <1>7, <1>8 DEF Headers
<1> QED  BY <1>9, <1>10

LEMMA PartLinks ==
  ASSUME NEW h, NEW s, NEW e, NEW g, NEW P, Headers(h), LinkedIn(h, s, e), TiledIn(h, s, P),
         NEW b \in ListIn(h, s), NEW sz \in Nat, sz + HDR < h[b].size,
         NEW new, new = b + HDR + sz, new \notin DOMAIN h, Parted(h, g, b, sz)
  PROVE  /\ ListIn(g, s) = ListIn(h, s) \cup {new}
         /\ LinkedIn(g, s, IF b = e THEN new ELSE e)
         /\ TiledIn(g, s, P)
         /\ EndIn(g, new) = EndIn(h, b)
<1> DEFINE L == ListIn(h, s)
           M == L \cup {new}
           f == IF b = e THEN new ELSE e
<1>1. L \subseteq DOMAIN h /\ ClosedIn(h, s, L)
  BY ListFacts
<1>2. /\ \A x \in L : x \in Nat /\ x # NULL /\ h[x].size \in Nat /\ x + HDR <= EndIn(h, x) /\ EndIn(h, x) \in Nat
      /\ HDR \in Nat \ {0} /\ new \in Nat /\ new # NULL /\ new \notin L /\ b < new /\ new < EndIn(h, b)
  <2>1. \A x \in L : x \in Nat /\ x # NULL /\ h[x].size \in Nat /\ x + HDR <= EndIn(h, x) /\ EndIn(h, x) \in Nat
    BY <1>1, HeaderFacts
  <2> QED  BY <1>1, <2>1, KHeapAssumption DEF EndIn, NULL
<1>3. /\ s \in L /\ e \in L /\ h[s].prev = NULL /\ h[e].next = NULL
      /\ \A x \in L : h[x].next = NULL => x = e
      /\ \A x \in L : h[x].next # NULL => h[x].next \in L /\ h[h[x].next].prev = x
      /\ \A x \in L : h[x].prev # NULL => h[x].prev \in L /\ h[h[x].prev].next = x
  BY DEF LinkedIn
<1>4. /\ DOMAIN g = DOMAIN h \cup {new}
      /\ \A x \in DOMAIN g :
           /\ g[x].size = IF x = new THEN h[b].size - (sz + HDR)
                          ELSE IF x = b THEN sz ELSE h[x].size
           /\ g[x].next = IF x = new THEN h[b].next ELSE IF x = b THEN new ELSE h[x].next
           /\ g[x].prev = IF x = new THEN b ELSE IF x = h[b].next THEN new ELSE h[x].prev
  BY DEF Parted
<1>5. M \subseteq DOMAIN g
  BY <1>1, <1>4
<1>6. ListIn(g, s) = M
  <2>1. ClosedIn(g, s, M)
    BY <1>3, <1>4, <1>5 DEF ClosedIn
  <2>2. ASSUME NEW S \in SUBSET DOMAIN g, ClosedIn(g, s, S) PROVE M \subseteq S
    <3>1. S \cap L \in SUBSET DOMAIN h /\ \A x \in S : x \in DOMAIN g
      BY <1>1
    <3>2. s \in S \cap L
      BY <1>2, <1>3, <2>2 DEF ClosedIn
    <3>3. ASSUME NEW x \in S \cap L PROVE h[x].next \in (S \cap L) \cup {NULL}
      <4>1. CASE x = b
        <5>1. new \in S
          BY <1>2, <1>4, <2>2, <3>1, <3>3, <4>1 DEF ClosedIn
        <5>2. h[b].next \in S \cup {NULL}
          BY <1>4, <2>2, <3>1, <5>1 DEF ClosedIn
        <5> QED  BY <1>3, <4>1, <5>2
      <4>2. CASE x # b
        <5>1. h[x].next \in S \cup {NULL}
          BY <1>2, <1>4, <2>2, <3>1, <4>2 DEF ClosedIn
        <5> QED  BY <1>3, <5>1
      <4> QED  BY <4>1, <4>2
    <3>4. ClosedIn(h, s, S \cap L)
      BY <3>2, <3>3 DEF ClosedIn
    <3>5. L \subseteq S
      BY <3>1, <3>4, ListLeast
    <3>6. new \in S
      BY <1>2, <1>4, <2>2, <3>1, <3>5 DEF ClosedIn
    <3> QED  BY <3>5, <3>6
  <2> HIDE DEF M
  <2> QED  BY <1>5, <2>1, <2>2, ListIs
<1>7. LinkedIn(g, s, f)
  <2>1. s \in M /\ f \in M /\ g[s].prev = NULL /\ g[f].next = NULL
    <3>1. s # h[b].next
      BY <1>2, <1>3
    <3>2. s \in M /\ g[s].prev = NULL
      BY <1>2, <1>3, <1>4, <1>5, <3>1
    <3>3. CASE e = b
      BY <1>3, <1>4, <1>5, <3>2, <3>3
    <3>4. CASE e # b
      BY <1>2, <1>3, <1>4, <1>5, <3>2, <3>4
    <3> QED  BY <3>3, <3>4
  <2>2. ASSUME NEW x \in M, g[x].next = NULL PROVE x = f
    BY <1>2, <1>3, <1>4, <1>5, <2>2
  <2>3. ASSUME NEW x \in M, g[x].next # NULL PROVE g[x].next \in M /\ g[g[x].next].prev = x
    <3>1. CASE x = new
      <4>1. g[x].next = h[b].next /\ h[b].next \in L
        BY <1>3, <1>4, <1>5, <2>3, <3>1
      <4>2. g[h[b].next].prev = new
        BY <1>2, <1>4, <1>5, <4>1
      <4> QED  BY <3>1, <4>1, <4>2
    <3>2. CASE x = b
      <4>1. g[x].next = new
        BY <1>2, <1>4, <1>5, <3>2
      <4> QED  BY <1>4, <1>5, <3>2, <4>1
    <3>3. CASE x # b /\ x # new
      <4>1. g[x].next = h[x].next /\ h[x].next \in L /\ h[h[x].next].prev = x
        BY <1>3, <1>4, <1>5, <2>3, <3>3
      <4>2. h[x].next # h[b].next /\ h[x].next # new
        BY <1>2, <1>3, <3>3, <4>1
      <4>3. g[h[x].next].prev = x
        BY <1>4, <1>5, <4>1, <4>2
      <4> QED  BY <4>1, <4>3
    <3> QED  BY <3>1, <3>2, <3>3
  <2>4. ASSUME NEW x \in M, g[x].prev # NULL PROVE g[x].prev \in M /\ g[g[x].prev].next = x
    <3>1. CASE x = new
      <4>1. g[x].prev = b
        BY <1>4, <1>5, <3>1
      <4> QED  BY <1>2, <1>4, <1>5, <3>1, <4>1
    <3>2. CASE x = h[b].next /\ x # new
      <4>1. g[x].prev = new
        BY <1>4, <1>5, <3>2
      <4> QED  BY <1>4, <1>5, <3>2, <4>1
    <3>3. CASE x # h[b].next /\ x # new
      <4>1. g[x].prev = h[x].prev /\ h[x].prev \in L /\ h[h[x].prev].next = x
        BY <1>3, <1>4, <1>5, <2>4, <3>3
      <4>2. h[x].prev # b /\ h[x].prev # new
        BY <1>2, <3>3, <4>1
      <4>3. g[h[x].prev].next = x
        BY <1>4, <1>5, <4>1, <4>2
      <4> QED  BY <4>1, <4>3
    <3> QED  BY <3>1, <3>2, <3>3
  <2> HIDE DEF M
  <2> QED  BY <1>6, <2>1, <2>2, <2>3, <2>4 DEF LinkedIn
<1>8. /\ EndIn(g, new) = EndIn(h, b) /\ EndIn(g, b) = new
      /\ \A x \in L : x # b => EndIn(g, x) = EndIn(h, x)
  <2>1. g[new].size = h[b].size - (sz + HDR) /\ g[b].size = sz
    BY <1>2, <1>4, <1>5
  <2>2. \A x \in L : x # b => g[x].size = h[x].size
    BY <1>2, <1>4, <1>5
  <2> QED  BY <1>2, <2>1, <2>2 DEF EndIn
<1>9. TiledIn(g, s, P)
  <2>1. /\ \A x \in L : EndIn(h, x) <= WORD
        /\ \A x, d \in L : x # d => EndIn(h, x) <= d \/ EndIn(h, d) <= x
        /\ \A d \in L : \A x \in d .. (EndIn(h, d) - 1) : InPages(x, P)
        /\ \A x \in Nat : InPages(x, P) => \E d \in L : d <= x /\ x < EndIn(h, d)
    BY DEF TiledIn
  <2>2. ASSUME NEW x \in M PROVE EndIn(g, x) <= WORD
    <3>1. new <= WORD
      BY <1>2, <2>1, KHeapAssumption
    <3> QED  BY <1>8, <2>1, <3>1
  <2>3. ASSUME NEW x \in M, NEW d \in M, x # d PROVE EndIn(g, x) <= d \/ EndIn(g, d) <= x
    <3>1. \A y \in L : y # b => EndIn(g, y) <= b \/ EndIn(h, b) <= y
      BY <1>8, <2>1
    <3>2. ASSUME NEW y \in L, y # b PROVE EndIn(g, y) <= new \/ EndIn(g, new) <= y
      BY <1>2, <1>8, <3>1, <3>2
    <3>3. ASSUME NEW y \in L, y # b PROVE EndIn(g, y) <= b \/ EndIn(g, b) <= y
      BY <1>2, <1>8, <3>1, <3>3
    <3>4. \A y, z \in L : y # b /\ z # b /\ y # z => EndIn(g, y) <= z \/ EndIn(g, z) <= y
      BY <1>8, <2>1
    <3> QED  BY <1>2, <1>8, <2>3, <3>2, <3>3, <3>4
  <2>4. ASSUME NEW d \in M, NEW x \in d .. (EndIn(g, d) - 1) PROVE InPages(x, P)
    <3>1. CASE d \in {b, new}
      <4>1. x \in b .. (EndIn(h, b) - 1)
        BY <1>2, <1>8, <3>1
      <4> QED  BY <2>1, <4>1
    <3>2. CASE d \notin {b, new}
      BY <1>8, <2>1, <3>2
    <3> QED  BY <3>1, <3>2
  <2>5. ASSUME NEW x \in Nat, InPages(x, P) PROVE \E d \in M : d <= x /\ x < EndIn(g, d)
    <3>1. PICK d \in L : d <= x /\ x < EndIn(h, d)
      BY <2>1, <2>5
    <3>2. CASE d = b
      <4>1. (b <= x /\ x < EndIn(g, b)) \/ (new <= x /\ x < EndIn(g, new))
        BY <1>2, <1>8, <3>1, <3>2
      <4> QED  BY <4>1
    <3>3. CASE d # b
      BY <1>8, <3>1, <3>3
    <3> QED  BY <3>2, <3>3
  <2> HIDE DEF M
  <2> QED  BY <1>6, <2>2, <2>3, <2>4, <2>5 DEF TiledIn
<1> QED  BY <1>6, <1>7, <1>8, <1>9

\* The bytes of the pages Q are the n bytes from a on.
Spans(Q, a, n) == \A x \in Nat : InPages(x, Q) <=> a <= x /\ x < a + n

Apart(P, Q) == P \cap Q = {}

\* A block of its own pages Q is appended to the list.
Extended(h, g, e, new, sz) ==
  /\ DOMAIN g = DOMAIN h \cup {new}
  /\ g[new] = Header(sz, NULL, e)
  /\ \A x \in DOMAIN h : /\ g[x].next = IF x = e THEN new ELSE h[x].next
                         /\ g[x].size = h[x].size /\ g[x].prev = h[x].prev
                         /\ g[x].free = h[x].free

LEMMA ExtendLinks ==
  ASSUME NEW h, NEW s, NEW e, NEW g, NEW P, NEW Q, Headers(h), LinkedIn(h, s, e), TiledIn(h, s, P),
         NEW sz \in Nat, NEW new \in Nat, new # NULL, new \notin DOMAIN h,
         new + HDR + sz <= WORD, Apart(P, Q),
         Spans(Q, new, HDR + sz),
         Extended(h, g, e, new, sz)
  PROVE  /\ ListIn(g, s) = ListIn(h, s) \cup {new}
         /\ LinkedIn(g, s, new)
         /\ TiledIn(g, s, P \cup Q)
         /\ \A x \in ListIn(h, s) : EndIn(g, x) = EndIn(h, x)
<1> DEFINE L == ListIn(h, s)
           M == L \cup {new}
<1>1. L \subseteq DOMAIN h /\ ClosedIn(h, s, L)
  BY ListFacts
<1>2. /\ \A x \in L : x \in Nat /\ x # NULL /\ h[x].size \in Nat /\ x < EndIn(h, x) /\ EndIn(h, x) \in Nat
      /\ HDR \in Nat \ {0} /\ new \notin L
  BY <1>1, HeaderFacts, KHeapAssumption
<1>3. /\ s \in L /\ e \in L /\ h[s].prev = NULL /\ h[e].next = NULL
      /\ \A x \in L : h[x].next = NULL => x = e
      /\ \A x \in L : h[x].next # NULL => h[x].next \in L /\ h[h[x].next].prev = x
      /\ \A x \in L : h[x].prev # NULL => h[x].prev \in L /\ h[h[x].prev].next = x
  BY DEF LinkedIn
<1>4. /\ DOMAIN g = DOMAIN h \cup {new}
      /\ g[new].size = sz /\ g[new].next = NULL /\ g[new].prev = e
      /\ \A x \in DOMAIN h : /\ g[x].next = IF x = e THEN new ELSE h[x].next
                             /\ g[x].size = h[x].size /\ g[x].prev = h[x].prev
  BY DEF Extended, Header
<1>0. \A x \in Nat : InPages(x, Q) <=> new <= x /\ x < new + HDR + sz
  BY <1>2 DEF Spans
<1>5. ListIn(g, s) = M
  <2>1. ClosedIn(g, s, M)
    BY <1>1, <1>3, <1>4 DEF ClosedIn
  <2>2. ASSUME NEW S \in SUBSET DOMAIN g, ClosedIn(g, s, S) PROVE M \subseteq S
    <3>1. S \cap L \in SUBSET DOMAIN h
      BY <1>1
    <3>2. s \in S \cap L
      BY <1>2, <1>3, <2>2 DEF ClosedIn
    <3>3. ASSUME NEW x \in S \cap L PROVE h[x].next \in (S \cap L) \cup {NULL}
      BY <1>1, <1>3, <1>4, <2>2 DEF ClosedIn
    <3>4. L \subseteq S
      <4>1. ClosedIn(h, s, S \cap L)
        BY <3>2, <3>3 DEF ClosedIn
      <4> QED  BY <3>1, <4>1, ListLeast
    <3>5. new \in S
      BY <1>1, <1>3, <1>4, <2>2, <3>4 DEF ClosedIn
    <3> QED  BY <3>4, <3>5
  <2>3. M \in SUBSET DOMAIN g
    BY <1>1, <1>4
  <2> HIDE DEF M
  <2> QED  BY <2>1, <2>2, <2>3, ListIs
<1>6. LinkedIn(g, s, new)
  <2>1. s \in M /\ new \in M /\ g[s].prev = NULL /\ g[new].next = NULL
    BY <1>1, <1>3, <1>4
  <2>2. ASSUME NEW x \in M, g[x].next = NULL PROVE x = new
    BY <1>1, <1>3, <1>4, <2>2
  <2>3. ASSUME NEW x \in M, g[x].next # NULL PROVE g[x].next \in M /\ g[g[x].next].prev = x
    <3>1. CASE x = e
      <4>1. g[x].next = new
        BY <1>1, <1>3, <1>4, <3>1
      <4> QED  BY <1>4, <3>1, <4>1
    <3>2. CASE x # e /\ x # new
      <4>1. g[x].next = h[x].next /\ h[x].next \in L /\ h[h[x].next].prev = x
        BY <1>1, <1>3, <1>4, <2>3, <3>2
      <4>2. g[h[x].next].prev = x
        BY <1>1, <1>4, <4>1
      <4> QED  BY <4>1, <4>2
    <3> QED  BY <1>4, <2>3, <3>1, <3>2
  <2>4. ASSUME NEW x \in M, g[x].prev # NULL PROVE g[x].prev \in M /\ g[g[x].prev].next = x
    <3>1. CASE x = new
      <4>1. g[x].prev = e
        BY <1>4, <3>1
      <4> QED  BY <1>1, <1>3, <1>4, <3>1, <4>1
    <3>2. CASE x # new
      <4>1. g[x].prev = h[x].prev /\ h[x].prev \in L /\ h[h[x].prev].next = x
        BY <1>1, <1>3, <1>4, <2>4, <3>2
      <4>2. h[x].prev # e
        BY <1>1, <1>2, <1>3, <3>2, <4>1
      <4>3. g[h[x].prev].next = x
        BY <1>1, <1>4, <4>1, <4>2
      <4> QED  BY <4>1, <4>3
    <3> QED  BY <3>1, <3>2
  <2> HIDE DEF M
  <2> QED  BY <1>5, <2>1, <2>2, <2>3, <2>4 DEF LinkedIn
<1>7. EndIn(g, new) = new + HDR + sz /\ \A x \in L : EndIn(g, x) = EndIn(h, x)
  BY <1>1, <1>4 DEF EndIn
<1>8. TiledIn(g, s, P \cup Q)
  <2>1. /\ \A x \in L : EndIn(h, x) <= WORD
        /\ \A x, d \in L : x # d => EndIn(h, x) <= d \/ EndIn(h, d) <= x
        /\ \A d \in L : \A x \in d .. (EndIn(h, d) - 1) : InPages(x, P)
        /\ \A x \in Nat : InPages(x, P) => \E d \in L : d <= x /\ x < EndIn(h, d)
    BY DEF TiledIn
  <2>2. \A x : ~ (InPages(x, P) /\ InPages(x, Q))
    BY DEF InPages, Apart
  <2>3. \A x : InPages(x, P \cup Q) <=> InPages(x, P) \/ InPages(x, Q)
    BY DEF InPages
  <2>4. ASSUME NEW x \in M PROVE EndIn(g, x) <= WORD
    BY <1>7, <2>1
  <2>5. ASSUME NEW x \in L PROVE EndIn(g, x) <= new \/ EndIn(g, new) <= x
    <3> SUFFICES ASSUME new < EndIn(h, x), x < new + HDR + sz PROVE FALSE
      BY <1>2, <1>7
    <3>1. CASE x < new
      <4>1. new \in x .. (EndIn(h, x) - 1) /\ new < new + HDR + sz
        BY <1>2, <3>1
      <4> QED  BY <1>0, <2>1, <2>2, <4>1
    <3>2. CASE x >= new
      <4>1. x \in Nat /\ x \in x .. (EndIn(h, x) - 1)
        BY <1>2
      <4> QED  BY <1>0, <2>1, <2>2, <3>2, <4>1
    <3> QED  BY <1>2, <3>1, <3>2
  <2>6. ASSUME NEW x \in M, NEW d \in M, x # d PROVE EndIn(g, x) <= d \/ EndIn(g, d) <= x
    BY <1>7, <2>1, <2>5, <2>6
  <2>7. ASSUME NEW d \in M, NEW x \in d .. (EndIn(g, d) - 1) PROVE InPages(x, P \cup Q)
    <3>1. CASE d = new
      <4>1. x \in Nat /\ new <= x /\ x < new + HDR + sz
        BY <1>2, <1>7, <3>1
      <4> QED  BY <1>0, <2>3, <4>1
    <3>2. CASE d # new
      BY <1>7, <2>1, <2>3, <3>2
    <3> QED  BY <3>1, <3>2
  <2>8. ASSUME NEW x \in Nat, InPages(x, P \cup Q) PROVE \E d \in M : d <= x /\ x < EndIn(g, d)
    <3>1. CASE InPages(x, P)
      BY <1>7, <2>1, <3>1
    <3>2. CASE InPages(x, Q)
      BY <1>0, <1>7, <3>2
    <3> QED  BY <2>3, <2>8, <3>1, <3>2
  <2> HIDE DEF M
  <2> QED  BY <1>5, <2>4, <2>6, <2>7, <2>8 DEF TiledIn
<1> QED  BY <1>5, <1>6, <1>7, <1>8


-----------------------------------------------------------------------------
(***************************************************************************)
(* Page arithmetic.                                                        *)
(***************************************************************************)
LEMMA PageSize == PAGE_SIZE \in Nat \ {0} /\ HDR \in Nat \ {0} /\ WORD \in Nat \ {0}
BY KHeapAssumption

LEMMA DivMod ==
  ASSUME NEW d \in Nat \ {0}, NEW x \in Nat
  PROVE  /\ x \div d \in Nat
         /\ x % d \in 0 .. (d - 1)
         /\ x = d * (x \div d) + (x % d)
OBVIOUS

LEMMA DivExact ==
  ASSUME NEW d \in Nat \ {0}, NEW k \in Nat, NEW r \in 0 .. (d - 1)
  PROVE  (d * k + r) \div d = k
OBVIOUS

\* The order of quotients and of multiples.
LEMMA DivOrder ==
  ASSUME NEW d \in Nat \ {0}, NEW x \in Nat, NEW k \in Nat
  PROVE  /\ k * d <= x <=> k <= x \div d
         /\ x < k * d <=> x \div d < k
<1> DEFINE q == x \div d
<1>1. q \in Nat /\ d * q <= x /\ x < d * q + d
  BY DivMod
<1> HIDE DEF q
<1>2. ASSUME k <= q PROVE k * d <= x
  <2>1. k * d <= q * d
    BY <1>1, <1>2
  <2> QED  BY <1>1, <2>1
<1>3. ASSUME q < k PROVE x < k * d
  <2>1. (q + 1) * d <= k * d
    BY <1>1, <1>3
  <2> QED  BY <1>1, <2>1
<1>4. k * d \in Nat
  OBVIOUS
<1>5. /\ k * d <= x <=> k <= q
      /\ x < k * d <=> q < k
  BY <1>1, <1>2, <1>3, <1>4
<1> QED  BY <1>5 DEF q

\* The bytes of k pages from page b on.
LEMMA RunBytes ==
  ASSUME NEW b \in Nat, NEW k \in Nat, NEW x \in Nat
  PROVE  InPages(x, b .. (b + k - 1)) <=> b * PAGE_SIZE <= x /\ x < b * PAGE_SIZE + k * PAGE_SIZE
<1>1. x \div PAGE_SIZE \in Nat
  BY PageSize, DivMod
<1>2. b * PAGE_SIZE <= x <=> b <= x \div PAGE_SIZE
  BY PageSize, DivOrder
<1>3. x < (b + k) * PAGE_SIZE <=> x \div PAGE_SIZE < b + k
  <2>1. b + k \in Nat
    OBVIOUS
  <2> QED  BY PageSize, DivOrder, <2>1
<1>4. (b + k) * PAGE_SIZE = b * PAGE_SIZE + k * PAGE_SIZE
  BY PageSize
<1> QED  BY <1>1, <1>2, <1>3, <1>4 DEF InPages

\* The pages of n bytes are in P if all of the bytes are.
LEMMA PagesOfBytes ==
  ASSUME NEW a \in Nat, NEW n \in Nat, NEW P, \A x \in a .. (a + n - 1) : InPages(x, P)
  PROVE  PagesOf(a, n) \subseteq P
<1> DEFINE d == PAGE_SIZE
<1> SUFFICES ASSUME n # 0, NEW p \in (a \div d) .. ((a + n - 1) \div d) PROVE p \in P
  BY DEF PagesOf
<1>1. d \in Nat \ {0} /\ a + n - 1 \in Nat /\ a \div d \in Nat /\ (a + n - 1) \div d \in Nat
  BY PageSize, DivMod
<1>2. p \in Nat
  BY <1>1
<1> HIDE DEF d
<1>3. p * d <= a + n - 1
  BY <1>1, <1>2, DivOrder
<1>4. CASE p * d >= a
  <2>1. p * d \in a .. (a + n - 1)
    BY <1>1, <1>2, <1>3, <1>4
  <2>2. (p * d) \div d = p
    <3>1. d * p + 0 = p * d /\ 0 \in 0 .. (d - 1)
      BY <1>1, <1>2
    <3> QED  BY <1>1, <1>2, <3>1, DivExact
  <2> QED  BY <2>1, <2>2 DEF InPages, d
<1>5. CASE p * d < a
  <2>1. p = a \div d
    <3>1. ~ (a < p * d)
      BY <1>1, <1>2, <1>5
    <3>2. p <= a \div d
      BY <1>1, <1>2, <1>5, DivOrder
    <3> QED  BY <1>1, <1>2, <3>2
  <2>2. a \in a .. (a + n - 1)
    OBVIOUS
  <2> QED  BY <2>1, <2>2 DEF InPages, d
<1>6. p * d \in Int
  BY <1>1, <1>2
<1> QED  BY <1>4, <1>5, <1>6

LEMMA AlignUp ==
  ASSUME NEW d \in Nat \ {0}, NEW x \in Nat, x + d <= WORD
  PROVE  /\ ALIGN_UP(x, d) \in Nat
         /\ ALIGN_UP(x, d) = d * (ALIGN_UP(x, d) \div d)
         /\ x <= ALIGN_UP(x, d)
         /\ ALIGN_UP(x, d) < x + d
<1> DEFINE q == x \div d
           r == x % d
<1>1. q \in Nat /\ r \in 0 .. (d - 1) /\ x = d * q + r
  BY DivMod
<1>2. CASE r = 0
  <2>1. ALIGN_UP(x, d) = x
    BY <1>2 DEF ALIGN_UP
  <2> QED  BY <2>1, <1>1, <1>2
<1>3. CASE r # 0
  <2>1. x + (d - r) \in 0 .. (WORD - 1)
    BY <1>1, <1>3, PageSize
  <2>2. ALIGN_UP(x, d) = x + (d - r)
    BY <1>3, <2>1, PageSize DEF ALIGN_UP, Word
  <2>3. x + (d - r) = d * (q + 1) + 0 /\ q + 1 \in Nat
    BY <1>1
  <2>4. ALIGN_UP(x, d) \div d = q + 1
    BY <2>2, <2>3, DivExact
  <2>5. d * q \in Nat
    BY <1>1
  <2> QED  BY <2>2, <2>3, <2>4, <2>5, <1>1, <1>3
<1> QED  BY <1>2, <1>3

\* Rounding a request up.
LEMMA RoundedUp ==
  ASSUME NoOverflow, NEW n \in Sizes
  PROVE  /\ n \in Nat /\ Rounded(n) \in Nat /\ n <= Rounded(n) /\ Rounded(n) < n + 16
         /\ n + 16 + HDR + PAGE_SIZE <= WORD
<1>1. n \in Nat /\ n + 16 + HDR + PAGE_SIZE <= WORD
  BY KHeapAssumption DEF NoOverflow
<1>2. n + 16 <= WORD
  BY <1>1, PageSize
<1> QED  BY <1>1, <1>2, AlignUp DEF Rounded

\* What kheap_extend takes: whole pages, and enough of them.
LEMMA ExtentFacts ==
  ASSUME NoOverflow, NEW n \in Sizes, NEW sz, sz = Rounded(n)
  PROVE  /\ PageCount(ExtentBytes(sz)) \in Nat \ {0}
         /\ ExtentBytes(sz) = PageCount(ExtentBytes(sz)) * PAGE_SIZE
         /\ sz \in Nat /\ sz + HDR <= ExtentBytes(sz) /\ sz + HDR < WORD
         /\ Word(sz + HDR) = sz + HDR
<1> DEFINE y == ExtentBytes(sz)
           k == y \div PAGE_SIZE
<1>1. sz \in Nat /\ sz + HDR + PAGE_SIZE < WORD /\ n \in Nat /\ sz < n + 16
  BY RoundedUp, PageSize
<1>2. sz + HDR \in 0 .. (WORD - 1)
  BY <1>1, PageSize
<1>3. Word(sz + HDR) = sz + HDR
  BY <1>2, PageSize DEF Word
<1>4. y \in Nat /\ y = PAGE_SIZE * k /\ sz + HDR <= y /\ y < sz + HDR + PAGE_SIZE
  BY <1>1, <1>2, <1>3, PageSize, AlignUp DEF ExtentBytes
<1>5. k \in Nat
  BY <1>4, PageSize, DivMod
<1>6. k < INT_MOD \div 2
  <2>1. INT_MOD \div 2 \in Nat
    BY KHeapAssumption
  <2>2. y < (INT_MOD \div 2) * PAGE_SIZE
    <3>1. (INT_MOD \div 2) * PAGE_SIZE \in Nat
      BY <2>1, PageSize
    <3>2. n + 16 + HDR + PAGE_SIZE <= (INT_MOD \div 2) * PAGE_SIZE
      BY DEF NoOverflow
    <3> HIDE DEF y
    <3> QED  BY <1>1, <1>4, <3>1, <3>2, PageSize
  <2> QED  BY <1>4, <2>1, <2>2, PageSize, DivOrder
<1>7. PageCount(y) = k
  <2>1. k % INT_MOD = k
    BY <1>5, <1>6, KHeapAssumption
  <2>2. ~ (k >= INT_MOD \div 2)
    BY <1>5, <1>6, KHeapAssumption
  <2>3. (y \div PAGE_SIZE) % INT_MOD = k
    BY <2>1
  <2> HIDE DEF k, y
  <2> QED  BY <2>2, <2>3 DEF PageCount
<1>8. k # 0
  BY <1>1, <1>4, PageSize
<1> QED  BY <1>1, <1>3, <1>4, <1>5, <1>7, <1>8, PageSize

-----------------------------------------------------------------------------
(***************************************************************************)
(* What the operations on the list make of a heap that is in order.        *)
(***************************************************************************)
\* The parts of a heap in order, for the blocks of its list.
LEMMA BlockFacts ==
  ASSUME NEW h, NEW s, NEW e, NEW P, NEW X, NEW l, HeapOK(h, s, e, P, X, l)
  PROVE  /\ ListIn(h, s) \subseteq DOMAIN h
         /\ \A b \in DOMAIN h :
              /\ h[b] \in HeaderType
              /\ b \in Nat /\ b # NULL /\ b + HDR \in Addresses /\ b \in Addresses
              /\ h[b].size \in Nat /\ h[b].next \in Nat /\ h[b].prev \in Nat
              /\ EndIn(h, b) \in Nat /\ b + HDR <= EndIn(h, b) /\ b < EndIn(h, b)
              /\ EndIn(h, b) = b + HDR + h[b].size
         /\ \A b \in ListIn(h, s) : EndIn(h, b) <= WORD
<1>1. Headers(h) /\ LinkedIn(h, s, e) /\ TiledIn(h, s, P)
  BY DEF HeapOK
<1>2. \A b \in ListIn(h, s) : EndIn(h, b) <= WORD
  BY <1>1 DEF TiledIn
<1>3. \A b \in DOMAIN h : h[b] \in HeaderType /\ b + HDR \in Addresses /\ b \in Addresses
  BY <1>1 DEF Headers
<1> QED  BY <1>1, <1>2, <1>3, ListFacts, HeaderFacts DEF EndIn

\* A header in the bytes of a block of the list, after its own, is not in it.
LEMMA NoneInside ==
  ASSUME NEW h, NEW s, NEW e, NEW P, NEW X, NEW l, HeapOK(h, s, e, P, X, l),
         NEW b \in ListIn(h, s), NEW x \in Nat, b < x, x < EndIn(h, b)
  PROVE  x \notin ListIn(h, s)
<1>1. \A c \in ListIn(h, s) : b # c => EndIn(h, b) <= c \/ EndIn(h, c) <= b
  BY DEF HeapOK, TiledIn
<1> QED  BY <1>1, BlockFacts

\* Losing headers outside the list does no harm.
LEMMA IntactOK ==
  ASSUME NEW P, NEW X, NEW l, NEW e, HeapOK(hdr, blockListStart, e, P, X, l), NEW lo, NEW hi
  PROVE  LET h == Intact(lo, hi) IN
         /\ HeapOK(h, blockListStart, e, P, X, l)
         /\ ListIn(h, blockListStart) = ListIn(hdr, blockListStart)
         /\ DOMAIN h \subseteq DOMAIN hdr
         /\ \A a \in DOMAIN h : h[a] = hdr[a]
         /\ \A a \in DOMAIN h : a + HDR <= lo \/ hi <= a \/ a \in ListIn(hdr, blockListStart)
<1> DEFINE h == Intact(lo, hi)
           s == blockListStart
           L == ListIn(hdr, s)
<1>1. L = List
  BY DEF ListIn, List, ClosedIn, Closed
<1>2. /\ DOMAIN h = {x \in DOMAIN hdr : x + HDR <= lo \/ hi <= x \/ x \in L}
      /\ \A a \in DOMAIN h : h[a] = hdr[a]
  BY <1>1 DEF Intact
<1>3. L \subseteq DOMAIN hdr
  BY BlockFacts
<1> HIDE DEF h
<1>4. L \subseteq DOMAIN h /\ DOMAIN h \subseteq DOMAIN hdr
  BY <1>2, <1>3
<1>5. LinkedIn(hdr, s, e) /\ TiledIn(hdr, s, P)
  BY DEF HeapOK
<1>6. ListIn(h, s) = L /\ LinkedIn(h, s, e) /\ TiledIn(h, s, P)
  BY <1>2, <1>4, <1>5, SameLinks
<1>7. Headers(h)
  BY <1>2, <1>4 DEF HeapOK, Headers
<1>8. StaleIn(h, s, P)
  BY <1>2, <1>4, <1>6 DEF HeapOK, StaleIn
<1>9. CoalescedIn(h, s, X)
  <2>1. \A b \in L : h[b] = hdr[b] /\ EndIn(h, b) = EndIn(hdr, b)
    BY <1>2, <1>4 DEF EndIn
  <2>2. \A b \in L : h[b].next # NULL => h[h[b].next] = hdr[hdr[b].next]
    BY <1>4, <1>6, <2>1 DEF LinkedIn
  <2> QED  BY <1>6, <2>1, <2>2 DEF HeapOK, CoalescedIn
<1>10. HeldIn(h, s, l)
  BY <1>2, <1>4, <1>6 DEF HeapOK, HeldIn
<1> QED  BY <1>2, <1>4, <1>6, <1>7, <1>8, <1>9, <1>10 DEF HeapOK, h

\* The heap with other flags and holders k.
Reflagged(h, g, s, e, P, X, k) ==
  /\ HeapOK(g, s, e, P, X, k)
  /\ ListIn(g, s) = ListIn(h, s)
  /\ \A a \in DOMAIN h : g[a].size = h[a].size

\* The flag of block b is set to v.
Marked(h, g, b, v) == g = [h EXCEPT ![b].free = v]

\* p goes to somebody who asked for n bytes, and comes back.
Given(l, k, p, n) == k = [q \in DOMAIN l \cup {p} |-> IF q = p THEN n ELSE l[q]]

GivenBack(l, k, p) == k = [q \in DOMAIN l \ {p} |-> l[q]]

\* A free block becomes used.
LEMMA UseOK ==
  ASSUME NEW h, NEW s, NEW e, NEW P, NEW X, NEW l, HeapOK(h, s, e, P, X, l),
         NEW b \in ListIn(h, s), h[b].free, NEW n \in Nat, n <= h[b].size,
         NEW g, Marked(h, g, b, FALSE), NEW k, Given(l, k, b + HDR, n)
  PROVE  Reflagged(h, g, s, e, P, X, k)
<1> DEFINE L == ListIn(h, s)
<1>1. /\ L \subseteq DOMAIN h
      /\ \A a \in DOMAIN h : h[a] \in HeaderType /\ a \in Nat
  BY BlockFacts
<1>2. /\ DOMAIN g = DOMAIN h
      /\ \A a \in DOMAIN h : /\ g[a].next = h[a].next /\ g[a].prev = h[a].prev
                             /\ g[a].size = h[a].size
                             /\ g[a].free = IF a = b THEN FALSE ELSE h[a].free
                             /\ g[a] \in HeaderType
  BY <1>1 DEF HeaderType, Marked
<1>3. LinkedIn(h, s, e) /\ TiledIn(h, s, P)
  BY DEF HeapOK
<1>4. ListIn(g, s) = L /\ LinkedIn(g, s, e) /\ TiledIn(g, s, P)
  <2>1. L \subseteq DOMAIN g /\ DOMAIN g \subseteq DOMAIN h
    BY <1>1, <1>2
  <2>2. \A a \in DOMAIN g : /\ g[a].next = h[a].next /\ g[a].prev = h[a].prev
                            /\ g[a].size = h[a].size
    BY <1>2
  <2> QED  BY ONLY <1>3, <2>1, <2>2, SameLinks
<1>5. Headers(g)
  BY <1>2 DEF HeapOK, Headers
<1>6. StaleIn(g, s, P)
  BY <1>2, <1>4 DEF HeapOK, StaleIn
<1>7. CoalescedIn(g, s, X)
  <2>1. \A a \in L : EndIn(g, a) = EndIn(h, a)
    BY <1>1, <1>2 DEF EndIn
  <2>2. \A a \in L : h[a].next # NULL => h[a].next \in L
    BY <1>3 DEF LinkedIn
  <2>3. \A a \in DOMAIN h : g[a].free => h[a].free
    BY <1>2
  <2>4. CoalescedIn(h, s, X)
    BY DEF HeapOK
  <2> SUFFICES ASSUME NEW a \in L, g[a].next # NULL, g[a].free, g[g[a].next].free,
                      EndIn(g, a) = g[a].next
               PROVE  g[a].next \in X
    BY <1>4 DEF CoalescedIn
  <2> QED  BY <1>1, <1>2, <2>1, <2>2, <2>3, <2>4 DEF CoalescedIn
<1>8. HeldIn(g, s, k)
  <2>1. DOMAIN k = DOMAIN l \cup {b + HDR} /\ k[b + HDR] = n
        /\ \A p \in DOMAIN l : p # b + HDR => k[p] = l[p]
    BY DEF Given
  <2>2. /\ \A a \in L : ~h[a].free => a + HDR \in DOMAIN l
        /\ \A p \in DOMAIN l : p - HDR \in L /\ ~h[p - HDR].free /\ l[p] <= h[p - HDR].size
    BY DEF HeapOK, HeldIn
  <2>3. b \in Nat /\ HDR \in Nat /\ b \in L
    BY <1>1, PageSize
  <2>4. ASSUME NEW a \in L, ~g[a].free PROVE a + HDR \in DOMAIN k
    BY <1>1, <1>2, <2>1, <2>2, <2>4
  <2>5. ASSUME NEW p \in DOMAIN k
        PROVE  p - HDR \in L /\ ~g[p - HDR].free /\ k[p] <= g[p - HDR].size
    <3>1. CASE p = b + HDR
      <4>1. p - HDR = b
        BY ONLY <2>3, <3>1
      <4>3. k[p] = n
        BY ONLY <2>1, <3>1
      <4>2. ~g[b].free /\ g[b].size = h[b].size
        BY <1>1, <1>2
      <4> QED  BY <2>3, <4>1, <4>2, <4>3
    <3>2. CASE p # b + HDR
      <4>1. p \in DOMAIN l /\ k[p] = l[p]
        BY <2>1, <3>2
      <4> QED  BY <1>1, <1>2, <2>2, <4>1
    <3> QED  BY <3>1, <3>2
  <2> QED  BY <1>4, <2>4, <2>5 DEF HeldIn
<1> QED  BY <1>2, <1>4, <1>5, <1>6, <1>7, <1>8 DEF HeapOK, Reflagged

\* A free block is split: its first sz bytes become used, the rest is free.
LEMMA PartOK ==
  ASSUME NEW h, NEW s, NEW e, NEW P, NEW X, NEW l, HeapOK(h, s, e, P, X, l),
         NEW b \in ListIn(h, s), h[b].free, NEW sz \in Nat, sz + HDR < h[b].size,
         NEW n \in Nat, n <= sz,
         NEW new, new = b + HDR + sz, new \notin DOMAIN h,
         NEW g, Parted(h, g, b, sz), Headers(g),
         NEW k, Given(l, k, b + HDR, n)
  PROVE  /\ HeapOK(g, s, IF b = e THEN new ELSE e, P, X, k)
         /\ ListIn(g, s) = ListIn(h, s) \cup {new}
<1> DEFINE L == ListIn(h, s)
           M == L \cup {new}
<1>1. /\ L \subseteq DOMAIN h
      /\ \A a \in DOMAIN h : a \in Nat /\ h[a].size \in Nat /\ a # NULL
      /\ EndIn(h, b) \in Nat /\ EndIn(h, b) = b + HDR + h[b].size
      /\ b \in Nat /\ HDR \in Nat \ {0} /\ new \in Nat /\ new # b /\ b < new /\ new < EndIn(h, b)
  BY BlockFacts, PageSize
<1>2. Headers(h) /\ LinkedIn(h, s, e) /\ TiledIn(h, s, P)
  BY DEF HeapOK
<1>3. /\ ListIn(g, s) = M /\ LinkedIn(g, s, IF b = e THEN new ELSE e) /\ TiledIn(g, s, P)
      /\ EndIn(g, new) = EndIn(h, b)
  BY <1>2, PartLinks
<1>4. /\ DOMAIN g = DOMAIN h \cup {new}
      /\ \A x \in DOMAIN g :
           /\ g[x].size = IF x = new THEN h[b].size - (sz + HDR) ELSE IF x = b THEN sz ELSE h[x].size
           /\ g[x].next = IF x = new THEN h[b].next ELSE IF x = b THEN new ELSE h[x].next
           /\ g[x].free = IF x = new THEN TRUE ELSE IF x = b THEN FALSE ELSE h[x].free
  BY DEF Parted
<1>5. /\ g[new].next = h[b].next /\ g[new].free
      /\ ~g[b].free /\ g[b].size = sz
      /\ \A x \in DOMAIN h \ {b} : /\ g[x].size = h[x].size /\ g[x].next = h[x].next
                                   /\ g[x].free = h[x].free /\ EndIn(g, x) = EndIn(h, x)
  BY <1>1, <1>4 DEF EndIn
<1>6. StaleIn(g, s, P)
  <2>1. InPages(new, P)
    <3>1. new \in b .. (EndIn(h, b) - 1)
      BY <1>1
    <3> QED  BY <1>2, <3>1 DEF TiledIn
  <2>2. \A a \in DOMAIN h : InPages(a, P) /\ (a \notin L => h[a].free)
    BY DEF HeapOK, StaleIn
  <2>3. ASSUME NEW a \in DOMAIN g PROVE InPages(a, P) /\ (a \notin M => g[a].free)
    BY <1>1, <1>4, <1>5, <2>1, <2>2
  <2> QED  BY <1>3, <2>3 DEF StaleIn
<1>7. CoalescedIn(g, s, X)
  <2>1. \A a \in L : h[a].next # NULL /\ h[a].free /\ h[h[a].next].free /\ EndIn(h, a) = h[a].next
                       => h[a].next \in X
    BY DEF HeapOK, CoalescedIn
  <2>2. \A a \in L : h[a].next # NULL => h[a].next \in L
    BY <1>2 DEF LinkedIn
  <2>3. \A a \in DOMAIN h : g[a].free => h[a].free
    BY <1>5
  <2>4. ASSUME NEW a \in M, g[a].next # NULL, g[a].free, g[g[a].next].free,
               EndIn(g, a) = g[a].next
        PROVE  g[a].next \in X
    <3>1. CASE a = new
      <4>1. g[a].next = h[b].next /\ EndIn(h, b) = h[b].next /\ h[b].next \in L
        BY <1>3, <1>5, <2>2, <2>4, <3>1
      <4>2. h[h[b].next].free
        BY <1>1, <2>3, <2>4, <4>1
      <4> QED  BY <2>1, <2>4, <4>1, <4>2
    <3>2. CASE a # new
      <4>1. a \in L /\ a # b /\ a \in DOMAIN h \ {b}
        BY <1>1, <1>5, <2>4, <3>2
      <4>2. g[a].next = h[a].next /\ EndIn(h, a) = h[a].next /\ h[a].free /\ h[a].next \in L
        BY <1>5, <2>2, <2>4, <4>1
      <4>3. h[h[a].next].free
        BY <1>1, <2>3, <2>4, <4>2
      <4> QED  BY <2>1, <2>4, <4>1, <4>2, <4>3
    <3> QED  BY <3>1, <3>2
  <2> HIDE DEF M
  <2> QED  BY <1>3, <2>4 DEF CoalescedIn
<1>8. HeldIn(g, s, k)
  <2>1. DOMAIN k = DOMAIN l \cup {b + HDR} /\ k[b + HDR] = n
        /\ \A p \in DOMAIN l : p # b + HDR => k[p] = l[p]
    BY DEF Given
  <2>2. /\ \A a \in L : ~h[a].free => a + HDR \in DOMAIN l
        /\ \A p \in DOMAIN l : p - HDR \in L /\ ~h[p - HDR].free /\ l[p] <= h[p - HDR].size
    BY DEF HeapOK, HeldIn
  <2>4. ASSUME NEW a \in M, ~g[a].free PROVE a + HDR \in DOMAIN k
    <3>1. CASE a = b
      BY <2>1, <3>1
    <3>2. CASE a # b
      <4>1. a \in L /\ ~h[a].free
        BY <1>1, <1>5, <2>4, <3>2
      <4> QED  BY <2>1, <2>2, <4>1
    <3> QED  BY <3>1, <3>2
  <2>5. ASSUME NEW p \in DOMAIN k
        PROVE  p - HDR \in M /\ ~g[p - HDR].free /\ k[p] <= g[p - HDR].size
    <3>1. CASE p = b + HDR
      <4>1. p - HDR = b
        BY <1>1, <3>1
      <4>2. k[p] = n
        BY ONLY <2>1, <3>1
      <4> QED  BY <1>5, <4>1, <4>2
    <3>2. CASE p # b + HDR
      <4>1. p \in DOMAIN l /\ k[p] = l[p]
        BY <2>1, <3>2
      <4>2. p - HDR \in L /\ ~h[p - HDR].free /\ l[p] <= h[p - HDR].size
        BY <2>2, <4>1
      <4>3. p - HDR # b
        BY <4>2
      <4>4. p - HDR \in DOMAIN h \ {b}
        BY <1>1, <4>2, <4>3
      <4> QED  BY <1>5, <4>1, <4>2, <4>4
    <3> QED  BY <3>1, <3>2
  <2> HIDE DEF M
  <2> QED  BY <1>3, <2>4, <2>5 DEF HeldIn
<1> QED  BY <1>3, <1>6, <1>7, <1>8 DEF HeapOK

\* The heap with a free block in new pages Q at the end.
Appended(h, g, s, P, Q, X, l, new) ==
  /\ HeapOK(g, s, new, P \cup Q, X \cup {new}, l)
  /\ ListIn(g, s) = ListIn(h, s) \cup {new}

LEMMA ExtendOK ==
  ASSUME NEW h, NEW s, NEW e, NEW P, NEW X, NEW l, HeapOK(h, s, e, P, X, l),
         NEW Q, Apart(P, Q), NEW sz \in Nat, NEW new \in Nat, new # NULL, new + HDR + sz <= WORD,
         Spans(Q, new, HDR + sz),
         NEW g, Extended(h, g, e, new, sz), Headers(g)
  PROVE  Appended(h, g, s, P, Q, X, l, new)
<1> DEFINE L == ListIn(h, s)
           M == L \cup {new}
<1>1. L \subseteq DOMAIN h /\ \A a \in DOMAIN h : a \in Nat
  BY BlockFacts
<1>2. Headers(h) /\ LinkedIn(h, s, e) /\ TiledIn(h, s, P)
  BY DEF HeapOK
<1>3. new \notin DOMAIN h
  <2>1. InPages(new, Q)
    BY PageSize DEF Spans
  <2>2. \A a \in DOMAIN h : InPages(a, P)
    BY DEF HeapOK, StaleIn
  <2> QED  BY <2>1, <2>2 DEF InPages, Apart
<1>4. /\ ListIn(g, s) = M /\ LinkedIn(g, s, new) /\ TiledIn(g, s, P \cup Q)
      /\ \A x \in L : EndIn(g, x) = EndIn(h, x)
  BY <1>2, <1>3, ExtendLinks
<1>5. /\ DOMAIN g = DOMAIN h \cup {new}
      /\ g[new].size = sz /\ g[new].next = NULL /\ g[new].free
      /\ \A x \in DOMAIN h : /\ g[x].next = IF x = e THEN new ELSE h[x].next
                             /\ g[x].size = h[x].size /\ g[x].free = h[x].free
  BY DEF Extended, Header
<1>6. StaleIn(g, s, P \cup Q)
  <2>1. \A a \in DOMAIN h : InPages(a, P) /\ (a \notin L => h[a].free)
    BY DEF HeapOK, StaleIn
  <2>2. InPages(new, Q)
    BY PageSize DEF Spans
  <2>3. ASSUME NEW a \in DOMAIN g PROVE InPages(a, P \cup Q) /\ (a \notin M => g[a].free)
    BY <1>5, <2>1, <2>2 DEF InPages
  <2> QED  BY <1>4, <2>3 DEF StaleIn
<1>7. CoalescedIn(g, s, X \cup {new})
  <2>1. \A a \in L : h[a].next # NULL /\ h[a].free /\ h[h[a].next].free /\ EndIn(h, a) = h[a].next
                       => h[a].next \in X
    BY DEF HeapOK, CoalescedIn
  <2>2. \A a \in L : h[a].next # NULL => h[a].next \in L
    BY <1>2 DEF LinkedIn
  <2>3. ASSUME NEW a \in M, g[a].next # NULL, g[a].free, g[g[a].next].free,
               EndIn(g, a) = g[a].next, a # e
        PROVE  g[a].next \in X
    <3>1. a \in L /\ g[a].next = h[a].next /\ h[a].next \in L /\ g[a].free = h[a].free
      BY <1>1, <1>5, <2>2, <2>3
    <3>2. g[h[a].next].free = h[h[a].next].free /\ EndIn(g, a) = EndIn(h, a)
      BY <1>1, <1>4, <1>5, <3>1
    <3> QED  BY <2>1, <2>3, <3>1, <3>2
  <2>4. e \in DOMAIN h /\ g[e].next = new
    BY <1>1, <1>2, <1>5 DEF LinkedIn
  <2> HIDE DEF M
  <2> QED  BY <1>4, <2>3, <2>4 DEF CoalescedIn
<1>8. HeldIn(g, s, l)
  <2>2. /\ \A a \in L : ~h[a].free => a + HDR \in DOMAIN l
        /\ \A p \in DOMAIN l : p - HDR \in L /\ ~h[p - HDR].free /\ l[p] <= h[p - HDR].size
    BY DEF HeapOK, HeldIn
  <2>3. ASSUME NEW a \in M, ~g[a].free PROVE a + HDR \in DOMAIN l
    BY <1>1, <1>5, <2>2, <2>3
  <2>4. ASSUME NEW p \in DOMAIN l
        PROVE  p - HDR \in M /\ ~g[p - HDR].free /\ l[p] <= g[p - HDR].size
    BY <1>1, <1>5, <2>2
  <2> HIDE DEF M
  <2> QED  BY <1>4, <2>3, <2>4 DEF HeldIn
<1> QED  BY <1>3, <1>4, <1>6, <1>7, <1>8 DEF HeapOK, Appended

\* The heap that kheap_init makes: one free block.
LEMMA StartOK ==
  ASSUME NEW g, NEW s \in Addresses, s # NULL, NEW sz \in Addresses, s + HDR \in Addresses,
         s + HDR + sz <= WORD, g = [a \in {s} |-> Header(sz, NULL, NULL)], NEW P,
         Spans(P, s, HDR + sz),
         NEW l, DOMAIN l = {}, NEW X
  PROVE  HeapOK(g, s, s, P, X, l)
<1>1. /\ DOMAIN g = {s} /\ g[s] = Header(sz, NULL, NULL)
      /\ g[s].size = sz /\ g[s].next = NULL /\ g[s].prev = NULL /\ g[s].free
  BY DEF Header
<1>2. ListIn(g, s) = {s}
  <2>1. ClosedIn(g, s, {s}) /\ {s} \in SUBSET DOMAIN g
    BY <1>1 DEF ClosedIn
  <2>2. \A S \in SUBSET DOMAIN g : ClosedIn(g, s, S) => {s} \subseteq S
    BY DEF ClosedIn
  <2> QED  BY <2>1, <2>2, ListIs
<1>3. Headers(g)
  <2>1. NULL \in Addresses
    BY PageSize DEF NULL, Addresses
  <2>2. g[s] \in HeaderType
    BY <1>1, <2>1 DEF Header, HeaderType
  <2> QED  BY <1>1, <2>2 DEF Headers
<1>4. LinkedIn(g, s, s)
  BY <1>1, <1>2 DEF LinkedIn
<1>5. EndIn(g, s) = s + HDR + sz /\ s \in Nat /\ sz \in Nat /\ HDR \in Nat \ {0}
  BY <1>1, PageSize DEF EndIn, Addresses
<1>6. TiledIn(g, s, P)
  <2>1. ASSUME NEW x \in s .. (EndIn(g, s) - 1) PROVE InPages(x, P)
    BY <1>5 DEF Spans
  <2>2. ASSUME NEW x \in Nat, InPages(x, P) PROVE s <= x /\ x < EndIn(g, s)
    BY <1>5, <2>2 DEF Spans
  <2> QED  BY <1>2, <1>5, <2>1, <2>2 DEF TiledIn
<1>7. StaleIn(g, s, P)
  <2>1. s \in Nat /\ s <= s /\ s < s + (HDR + sz)
    BY <1>5
  <2> QED  BY <1>1, <1>2, <2>1 DEF StaleIn, Spans
<1>8. CoalescedIn(g, s, X) /\ HeldIn(g, s, l)
  BY <1>1, <1>2 DEF CoalescedIn, HeldIn
<1> QED  BY <1>3, <1>4, <1>6, <1>7, <1>8 DEF HeapOK

-----------------------------------------------------------------------------
(***************************************************************************)
(* kfree.  Between its stores the heap is in order but for two free        *)
(* neighbours: block f and the one after it, and the one before t and t.   *)
(***************************************************************************)
CoalescedBut(h, s, X, f, t) ==
  \A b \in ListIn(h, s) :
    h[b].next # NULL /\ h[b].free /\ h[h[b].next].free /\ EndIn(h, b) = h[b].next
      => h[b].next \in X \/ b = f \/ h[b].next = t

HeapBut(h, s, e, P, X, l, f, t) ==
  /\ Headers(h)
  /\ LinkedIn(h, s, e)
  /\ TiledIn(h, s, P)
  /\ StaleIn(h, s, P)
  /\ CoalescedBut(h, s, X, f, t)
  /\ HeldIn(h, s, l)

LEMMA ButFacts ==
  ASSUME NEW h, NEW s, NEW e, NEW P, NEW X, NEW l, NEW f, NEW t, HeapBut(h, s, e, P, X, l, f, t)
  PROVE  /\ ListIn(h, s) \subseteq DOMAIN h
         /\ \A b \in DOMAIN h :
              /\ h[b] \in HeaderType
              /\ b \in Nat /\ b # NULL /\ b + HDR \in Addresses /\ b \in Addresses
              /\ h[b].size \in Nat /\ h[b].next \in Nat /\ h[b].prev \in Nat
              /\ EndIn(h, b) \in Nat /\ b + HDR <= EndIn(h, b) /\ b < EndIn(h, b)
              /\ EndIn(h, b) = b + HDR + h[b].size
         /\ \A b \in ListIn(h, s) : EndIn(h, b) <= WORD
         /\ \A b \in ListIn(h, s) : h[b].next # NULL => h[b].next \in ListIn(h, s) /\ h[h[b].next].prev = b
         /\ \A b \in ListIn(h, s) : h[b].prev # NULL => h[b].prev \in ListIn(h, s) /\ h[h[b].prev].next = b
<1>1. Headers(h) /\ LinkedIn(h, s, e) /\ TiledIn(h, s, P)
  BY DEF HeapBut
<1>2. \A b \in ListIn(h, s) : EndIn(h, b) <= WORD
  BY <1>1 DEF TiledIn
<1>3. \A b \in DOMAIN h : h[b] \in HeaderType /\ b + HDR \in Addresses /\ b \in Addresses
  BY <1>1 DEF Headers
<1>4. /\ \A b \in ListIn(h, s) : h[b].next # NULL => h[b].next \in ListIn(h, s) /\ h[h[b].next].prev = b
      /\ \A b \in ListIn(h, s) : h[b].prev # NULL => h[b].prev \in ListIn(h, s) /\ h[h[b].prev].next = b
  BY <1>1 DEF LinkedIn
<1> QED  BY <1>1, <1>2, <1>3, <1>4, ListFacts, HeaderFacts DEF EndIn

\* With no exception left, the heap is in order.
LEMMA ButNothing ==
  ASSUME NEW h, NEW s, NEW e, NEW P, NEW X, NEW l, HeapBut(h, s, e, P, X, l, NULL, NULL)
  PROVE  HeapOK(h, s, e, P, X, l)
<1>1. \A b \in ListIn(h, s) : b # NULL
  BY ButFacts
<1> QED  BY <1>1 DEF HeapBut, HeapOK, CoalescedBut, CoalescedIn

\* Block b is free, with neighbours that may be free too.
Unused(h, g, s, e, P, X, k, b) ==
  /\ HeapBut(g, s, e, P, X, k, b, b)
  /\ ListIn(g, s) = ListIn(h, s)
  /\ DOMAIN g = DOMAIN h
  /\ g[b].free /\ \A a \in DOMAIN h : g[a].size = h[a].size
  /\ \A a \in DOMAIN h : a # b => g[a].free = h[a].free

\* A used block becomes free.
LEMMA UnuseOK ==
  ASSUME NEW h, NEW s, NEW e, NEW P, NEW X, NEW l, HeapOK(h, s, e, P, X, l),
         DOMAIN l \subseteq Addresses, NEW b \in ListIn(h, s), ~h[b].free,
         NEW g, Marked(h, g, b, TRUE), NEW k, GivenBack(l, k, b + HDR)
  PROVE  Unused(h, g, s, e, P, X, k, b)
<1> DEFINE L == ListIn(h, s)
<1>1. /\ L \subseteq DOMAIN h
      /\ \A a \in DOMAIN h : h[a] \in HeaderType /\ a \in Nat
  BY BlockFacts
<1>2. /\ DOMAIN g = DOMAIN h
      /\ \A a \in DOMAIN h : /\ g[a].next = h[a].next /\ g[a].prev = h[a].prev
                             /\ g[a].size = h[a].size
                             /\ g[a].free = IF a = b THEN TRUE ELSE h[a].free
                             /\ g[a] \in HeaderType
  BY <1>1 DEF HeaderType, Marked
<1>3. LinkedIn(h, s, e) /\ TiledIn(h, s, P)
  BY DEF HeapOK
<1>4. ListIn(g, s) = L /\ LinkedIn(g, s, e) /\ TiledIn(g, s, P)
  <2>1. L \subseteq DOMAIN g /\ DOMAIN g \subseteq DOMAIN h
    BY <1>1, <1>2
  <2>2. \A a \in DOMAIN g : /\ g[a].next = h[a].next /\ g[a].prev = h[a].prev
                            /\ g[a].size = h[a].size
    BY <1>2
  <2> QED  BY ONLY <1>3, <2>1, <2>2, SameLinks
<1>5. Headers(g)
  BY <1>2 DEF HeapOK, Headers
<1>6. StaleIn(g, s, P)
  BY <1>2, <1>4 DEF HeapOK, StaleIn
<1>7. CoalescedBut(g, s, X, b, b)
  <2>1. \A a \in L : EndIn(g, a) = EndIn(h, a)
    BY <1>1, <1>2 DEF EndIn
  <2>2. \A a \in L : h[a].next # NULL => h[a].next \in L
    BY <1>3 DEF LinkedIn
  <2>4. CoalescedIn(h, s, X)
    BY DEF HeapOK
  <2> SUFFICES ASSUME NEW a \in L, g[a].next # NULL, g[a].free, g[g[a].next].free,
                      EndIn(g, a) = g[a].next, a # b, g[a].next # b
               PROVE  g[a].next \in X
    BY <1>4 DEF CoalescedBut
  <2>5. g[a].next = h[a].next /\ h[a].next \in L /\ h[a].free /\ EndIn(h, a) = h[a].next
    BY <1>1, <1>2, <2>1, <2>2
  <2>6. h[h[a].next].free
    BY <1>1, <1>2, <2>5
  <2> QED  BY <2>4, <2>5, <2>6 DEF CoalescedIn
<1>8. HeldIn(g, s, k)
  <2>1. DOMAIN k = DOMAIN l \ {b + HDR} /\ \A p \in DOMAIN k : k[p] = l[p]
    BY DEF GivenBack
  <2>2. /\ \A a \in L : ~h[a].free => a + HDR \in DOMAIN l
        /\ \A p \in DOMAIN l : p - HDR \in L /\ ~h[p - HDR].free /\ l[p] <= h[p - HDR].size
    BY DEF HeapOK, HeldIn
  <2>3. b \in Nat /\ HDR \in Nat /\ b \in L
    BY <1>1, PageSize
  <2>4. ASSUME NEW a \in L, ~g[a].free PROVE a + HDR \in DOMAIN k
    <3>1. a # b /\ ~h[a].free /\ a \in Nat
      BY <1>1, <1>2, <2>4
    <3>2. a + HDR # b + HDR
      BY <2>3, <3>1
    <3> QED  BY <2>1, <2>2, <3>1, <3>2
  <2>5. ASSUME NEW p \in DOMAIN k, p \in Int
        PROVE  p - HDR \in L /\ ~g[p - HDR].free /\ k[p] <= g[p - HDR].size
    <3>1. p \in DOMAIN l /\ k[p] = l[p] /\ p # b + HDR
      BY <2>1
    <3>2. p - HDR # b
      BY <2>3, <2>5, <3>1
    <3>3. p - HDR \in L /\ ~h[p - HDR].free /\ l[p] <= h[p - HDR].size
      BY <2>2, <3>1
    <3> QED  BY <1>1, <1>2, <3>1, <3>2, <3>3
  <2>6. ASSUME NEW p \in DOMAIN k PROVE p \in Int
    BY <2>1 DEF Addresses
  <2> QED  BY <1>4, <2>4, <2>5, <2>6 DEF HeldIn
<1>9. HeapBut(g, s, e, P, X, k, b, b)
  BY <1>4, <1>5, <1>6, <1>7, <1>8 DEF HeapBut
<1>10. g[b].free
  BY <1>1, <1>2
<1>11. \A a \in DOMAIN h : g[a].size = h[a].size /\ (a # b => g[a].free = h[a].free)
  BY <1>2
<1> QED  BY <1>2, <1>4, <1>9, <1>10, <1>11 DEF Unused

\* A free block swallows the free block that follows it.
LEMMA MergeOK ==
  ASSUME NEW h, NEW s, NEW e, NEW P, NEW X, NEW l, NEW f, NEW t, HeapBut(h, s, e, P, X, l, f, t),
         NEW a \in ListIn(h, s), NEW c \in ListIn(h, s), h[a].next = c, EndIn(h, a) = c,
         h[a].free, h[c].free, f # c
  PROVE  LET g == Absorb(h, a, c) IN
         /\ HeapBut(g, s, IF e = c THEN a ELSE e, P, X, l, IF f = a THEN NULL ELSE f,
                    IF t = c THEN NULL ELSE t)
         /\ ListIn(g, s) = ListIn(h, s) \ {c}
         /\ DOMAIN g = DOMAIN h
         /\ a # c
         /\ \A x \in DOMAIN h : /\ g[x].free = h[x].free
                                /\ x # a => g[x].size = h[x].size
<1> DEFINE L == ListIn(h, s)
           M == L \ {c}
           g == Absorb(h, a, c)
<1>1. Headers(h) /\ LinkedIn(h, s, e) /\ TiledIn(h, s, P)
  BY DEF HeapBut
<1>2. /\ L \subseteq DOMAIN h
      /\ \A b \in DOMAIN h : /\ h[b] \in HeaderType /\ b \in Nat /\ b # NULL /\ b + HDR \in Addresses
                             /\ b \in Addresses
      /\ \A b \in L : h[b].next # NULL => h[b].next \in L /\ h[h[b].next].prev = b
  BY ButFacts
<1>3. h[c].next # NULL => h[c].next \in DOMAIN h
  BY <1>2
<1>4. Swallowed(h, g, a, c)
  BY <1>1, <1>2, <1>3, AbsorbSwallows
<1> HIDE DEF g
<1>5. /\ a # c /\ ListIn(g, s) = M
      /\ LinkedIn(g, s, IF e = c THEN a ELSE e)
      /\ TiledIn(g, s, P) /\ EndIn(g, a) = EndIn(h, c)
  <2>1. Neighbours(h, s, a, c)
    BY DEF Neighbours
  <2>2. Shrunk(h, g, s, e, P, a, c)
    BY ONLY <1>1, <1>4, <2>1, SwallowLinks
  <2> QED  BY <2>2 DEF Shrunk
<1>6. /\ DOMAIN g = DOMAIN h
      /\ \A x \in DOMAIN h :
           /\ g[x].size = IF x = a THEN h[a].size + h[c].size + HDR ELSE h[x].size
           /\ g[x].next = IF x = a THEN h[c].next ELSE h[x].next
           /\ g[x].free = h[x].free
  BY <1>4 DEF Swallowed
<1>7. Headers(g)
  <2>1. h[a].size + h[c].size + HDR \in Addresses
    <3>1. EndIn(g, a) <= WORD
      BY <1>5 DEF TiledIn
    <3>2. EndIn(g, a) = a + HDR + (h[a].size + h[c].size + HDR)
      BY <1>2, <1>6 DEF EndIn
    <3>3. a \in Nat /\ a > 0 /\ h[a].size \in Nat /\ h[c].size \in Nat /\ HDR \in Nat
      BY <1>2, PageSize DEF HeaderType, NULL, Addresses
    <3> QED  BY <3>1, <3>2, <3>3, PageSize DEF Addresses
  <2> DEFINE g1 == [h EXCEPT ![a].size = @ + h[c].size + HDR, ![a].next = h[c].next]
  <2>2. DOMAIN g1 = DOMAIN h /\ \A x \in DOMAIN h : g1[x] \in HeaderType
    <3>1. h[c].next \in Addresses /\ h[a] \in HeaderType
      BY <1>2 DEF HeaderType
    <3>2. [h[a] EXCEPT !.size = h[a].size + h[c].size + HDR, !.next = h[c].next] \in HeaderType
      BY <2>1, <3>1 DEF HeaderType
    <3>3. DOMAIN g1 = DOMAIN h /\ \A x \in DOMAIN h :
            g1[x] = IF x = a
                    THEN [h[a] EXCEPT !.size = h[a].size + h[c].size + HDR, !.next = h[c].next]
                    ELSE h[x]
      OBVIOUS
    <3> HIDE DEF g1
    <3> QED  BY <1>2, <3>2, <3>3
  <2>3. g = SetPrev(g1, h[c].next, a)
    BY DEF g, Absorb
  <2> HIDE DEF g1
  <2>4. \A x \in DOMAIN h : g[x] \in HeaderType
    <3>1. CASE h[c].next = NULL
      BY <2>2, <2>3, <3>1 DEF SetPrev
    <3>2. CASE h[c].next # NULL
      <4>1. g = [g1 EXCEPT ![h[c].next].prev = a]
        BY <2>3, <3>2 DEF SetPrev
      <4>2. [g1[h[c].next] EXCEPT !.prev = a] \in HeaderType
        BY <1>2, <1>3, <2>2, <3>2 DEF HeaderType
      <4>3. \A x \in DOMAIN h : g[x] = IF x = h[c].next THEN [g1[h[c].next] EXCEPT !.prev = a]
                                                        ELSE g1[x]
        BY <2>2, <4>1
      <4> QED  BY <2>2, <4>2, <4>3
    <3> QED  BY <3>1, <3>2
  <2> QED  BY <1>2, <1>6, <2>4 DEF Headers
<1>8. StaleIn(g, s, P)
  <2>1. \A x \in DOMAIN h : InPages(x, P) /\ (x \notin L => h[x].free)
    BY DEF HeapBut, StaleIn
  <2>2. \A x \in DOMAIN g : InPages(x, P) /\ (x \notin M => g[x].free)
    BY <1>6, <2>1
  <2> QED  BY <1>5, <2>2 DEF StaleIn
<1>9. CoalescedBut(g, s, X, IF f = a THEN NULL ELSE f, IF t = c THEN NULL ELSE t)
  <2> DEFINE f2 == IF f = a THEN NULL ELSE f
             t2 == IF t = c THEN NULL ELSE t
  <2>1. \A b \in L : h[b].next # NULL /\ h[b].free /\ h[h[b].next].free /\ EndIn(h, b) = h[b].next
                       => h[b].next \in X \/ b = f \/ h[b].next = t
    BY DEF HeapBut, CoalescedBut
  <2>2. ASSUME NEW b \in M, g[b].next # NULL, g[b].free, g[g[b].next].free,
               EndIn(g, b) = g[b].next
        PROVE  g[b].next \in X \/ b = f2 \/ g[b].next = t2
    <3>1. CASE b = a
      <4>1. g[b].next = h[c].next /\ EndIn(h, c) = h[c].next /\ h[c].next \in L
        BY <1>2, <1>5, <1>6, <2>2, <3>1
      <4>2. h[h[c].next].free
        BY <1>2, <1>6, <2>2, <4>1
      <4>3. h[c].next \in X \/ h[c].next = t
        BY <2>1, <2>2, <4>1, <4>2
      <4>4. h[c].next # c
        BY <1>2, <1>5, <4>1
      <4> QED  BY <4>1, <4>3, <4>4
    <3>2. CASE b # a
      <4>1. /\ g[b].next = h[b].next /\ h[b].next \in L /\ g[b].size = h[b].size
            /\ h[b].free /\ h[h[b].next].free
        BY <1>2, <1>6, <2>2, <3>2
      <4>2. EndIn(h, b) = h[b].next
        BY <2>2, <4>1 DEF EndIn
      <4>3. h[b].next # c
        BY <1>2, <3>2, <4>1
      <4>4. h[b].next \in X \/ b = f \/ h[b].next = t
        BY <2>1, <2>2, <4>1, <4>2
      <4> QED  BY <3>2, <4>1, <4>3, <4>4
    <3> QED  BY <3>1, <3>2
  <2> HIDE DEF M, f2, t2
  <2>3. CoalescedBut(g, s, X, f2, t2)
    BY <1>5, <2>2 DEF CoalescedBut
  <2> QED  BY <2>3 DEF f2, t2
<1>10. HeldIn(g, s, l)
  <2>2. /\ \A b \in L : ~h[b].free => b + HDR \in DOMAIN l
        /\ \A p \in DOMAIN l : p - HDR \in L /\ ~h[p - HDR].free /\ l[p] <= h[p - HDR].size
    BY DEF HeapBut, HeldIn
  <2>3. ASSUME NEW b \in M, ~g[b].free PROVE b + HDR \in DOMAIN l
    BY <1>2, <1>6, <2>2, <2>3
  <2>4. ASSUME NEW p \in DOMAIN l
        PROVE  p - HDR \in M /\ ~g[p - HDR].free /\ l[p] <= g[p - HDR].size
    <3>1. p - HDR # a /\ p - HDR # c /\ p - HDR \in DOMAIN h
      BY <1>2, <2>2
    <3> QED  BY <1>6, <2>2, <3>1
  <2> HIDE DEF M
  <2> QED  BY <1>5, <2>3, <2>4 DEF HeldIn
<1>11. HeapBut(g, s, IF e = c THEN a ELSE e, P, X, l, IF f = a THEN NULL ELSE f,
               IF t = c THEN NULL ELSE t)
  BY <1>5, <1>7, <1>8, <1>9, <1>10 DEF HeapBut
<1> QED  BY <1>5, <1>6, <1>11 DEF g

\* What both merges of kfree keep: flags, and the sizes of used blocks.
KeepsUsed(h, g) ==
  /\ DOMAIN g = DOMAIN h
  /\ \A x \in DOMAIN h : /\ g[x].free = h[x].free
                         /\ ~h[x].free => g[x].size = h[x].size

\* kfree looks at the next block.
LEMMA NextMerge ==
  ASSUME NEW h, NEW s, NEW e, NEW P, NEW X, NEW l, NEW b, HeapBut(h, s, e, P, X, l, b, b),
         b \in ListIn(h, s), h[b].free
  PROVE  LET n == h[b].next
             with == n # NULL /\ h[n].free /\ Touching(h, b, n)
             g == IF with THEN Absorb(h, b, n) ELSE h
             f == IF with /\ n = e THEN b ELSE e
         IN  /\ HeapBut(g, s, f, P, X, l, NULL, b)
             /\ b \in ListIn(g, s) /\ g[b].free
             /\ KeepsUsed(h, g)
<1> DEFINE n == h[b].next
           with == n # NULL /\ h[n].free /\ Touching(h, b, n)
           g == IF with THEN Absorb(h, b, n) ELSE h
           f == IF with /\ n = e THEN b ELSE e
<1>1. /\ ListIn(h, s) \subseteq DOMAIN h
      /\ b # NULL /\ b \in Nat /\ h[b].size \in Nat /\ EndIn(h, b) = b + HDR + h[b].size
      /\ n # NULL => n \in ListIn(h, s) /\ h[n].prev = b
  BY ButFacts
<1>2. Touching(h, b, n) <=> EndIn(h, b) = n
  BY <1>1, PageSize DEF Touching
<1>3. CASE with
  <2>1. n \in ListIn(h, s) /\ EndIn(h, b) = n /\ h[b].next = n /\ h[n].free
    BY <1>1, <1>2, <1>3
  <2>2. b # n
    <3>1. b < EndIn(h, b)
      BY <1>1, ButFacts
    <3> QED  BY <1>1, <2>1, <3>1
  <2> DEFINE k == Absorb(h, b, n)
  <2>3. /\ HeapBut(k, s, IF e = n THEN b ELSE e, P, X, l, IF b = b THEN NULL ELSE b,
                   IF b = n THEN NULL ELSE b)
        /\ ListIn(k, s) = ListIn(h, s) \ {n}
        /\ DOMAIN k = DOMAIN h
        /\ \A x \in DOMAIN h : /\ k[x].free = h[x].free
                               /\ x # b => k[x].size = h[x].size
    BY <2>1, <2>2, MergeOK
  <2>4. HeapBut(k, s, IF e = n THEN b ELSE e, P, X, l, NULL, b)
    BY <2>2, <2>3
  <2> HIDE DEF k
  <2>5. g = k /\ f = IF e = n THEN b ELSE e
    BY <1>3 DEF k
  <2>6. KeepsUsed(h, k)
    BY <2>3 DEF KeepsUsed
  <2>7. b \in ListIn(k, s) /\ k[b].free
    BY <1>1, <2>2, <2>3
  <2> QED  BY <2>4, <2>5, <2>6, <2>7
<1>4. CASE ~with
  <2>1. g = h /\ f = e
    BY <1>4
  <2>2. CoalescedBut(h, s, X, NULL, b)
    <3>1. CoalescedBut(h, s, X, b, b)
      BY DEF HeapBut
    <3> QED  BY <1>2, <1>4, <3>1 DEF CoalescedBut
  <2>3. HeapBut(h, s, e, P, X, l, NULL, b)
    BY <2>2 DEF HeapBut
  <2>4. KeepsUsed(h, h)
    BY DEF KeepsUsed
  <2> QED  BY <2>1, <2>3, <2>4
<1> QED  BY <1>3, <1>4

\* Then it looks at the previous one.
LEMMA PrevMerge ==
  ASSUME NEW h, NEW s, NEW e, NEW P, NEW X, NEW l, NEW b, HeapBut(h, s, e, P, X, l, NULL, b),
         b \in ListIn(h, s), h[b].free
  PROVE  LET v == h[b].prev
             with == v # NULL /\ h[v].free /\ Touching(h, v, b)
             g == IF with THEN Absorb(h, v, b) ELSE h
             f == IF with /\ b = e THEN v ELSE e
         IN  HeapOK(g, s, f, P, X, l) /\ KeepsUsed(h, g)
<1> DEFINE v == h[b].prev
           with == v # NULL /\ h[v].free /\ Touching(h, v, b)
           g == IF with THEN Absorb(h, v, b) ELSE h
           f == IF with /\ b = e THEN v ELSE e
<1>1. /\ ListIn(h, s) \subseteq DOMAIN h
      /\ b # NULL
      /\ v # NULL => v \in ListIn(h, s) /\ h[v].next = b
  BY ButFacts
<1>2. v # NULL => (Touching(h, v, b) <=> EndIn(h, v) = b)
  <2>1. v # NULL => v \in Nat /\ h[v].size \in Nat /\ EndIn(h, v) = v + HDR + h[v].size
    BY <1>1, ButFacts
  <2> QED  BY <2>1, PageSize DEF Touching
<1>3. CASE with
  <2>1. v \in ListIn(h, s) /\ EndIn(h, v) = b /\ h[v].next = b /\ h[v].free
    BY <1>1, <1>2, <1>3
  <2> DEFINE k == Absorb(h, v, b)
  <2>2. /\ HeapBut(k, s, IF e = b THEN v ELSE e, P, X, l, IF NULL = v THEN NULL ELSE NULL,
                   IF b = b THEN NULL ELSE b)
        /\ DOMAIN k = DOMAIN h
        /\ \A x \in DOMAIN h : /\ k[x].free = h[x].free
                               /\ x # v => k[x].size = h[x].size
    BY <1>1, <2>1, MergeOK
  <2> HIDE DEF k
  <2>3. HeapBut(k, s, IF e = b THEN v ELSE e, P, X, l, NULL, NULL)
    BY <2>2
  <2>4. HeapOK(k, s, IF e = b THEN v ELSE e, P, X, l)
    BY <2>3, ButNothing
  <2>5. KeepsUsed(h, k)
    BY <2>1, <2>2 DEF KeepsUsed
  <2>6. g = k /\ f = IF e = b THEN v ELSE e
    BY <1>3 DEF k
  <2> QED  BY <2>4, <2>5, <2>6
<1>4. CASE ~with
  <2>1. g = h /\ f = e
    BY <1>4
  <2>2. CoalescedBut(h, s, X, NULL, NULL)
    <3>1. CoalescedBut(h, s, X, NULL, b)
      BY DEF HeapBut
    <3>2. \A a \in ListIn(h, s) : h[a].next = b => a = v /\ v # NULL
      BY <1>1, ButFacts
    <3>3. ASSUME NEW a \in ListIn(h, s), h[a].next # NULL, h[a].free, h[h[a].next].free,
                 EndIn(h, a) = h[a].next
          PROVE  h[a].next \in X \/ a = NULL \/ h[a].next = NULL
      <4>1. CASE h[a].next = b
        BY <1>2, <1>4, <3>2, <3>3, <4>1
      <4>2. CASE h[a].next # b
        BY <3>1, <3>3, <4>2 DEF CoalescedBut
      <4> QED  BY <4>1, <4>2
    <3> QED  BY <3>3 DEF CoalescedBut
  <2>3. HeapBut(h, s, e, P, X, l, NULL, NULL)
    BY <2>2 DEF HeapBut
  <2>4. KeepsUsed(h, h)
    BY DEF KeepsUsed
  <2> QED  BY <2>1, <2>3, <2>4, ButNothing
<1> QED  BY <1>3, <1>4

-----------------------------------------------------------------------------
(***************************************************************************)
(* The steps.                                                              *)
(***************************************************************************)
LEMMA InitInv == Init => IndInv
<1> SUFFICES ASSUME Init PROVE IndInv
  OBVIOUS
<1>1. NULL \in Addresses /\ 0 \in Addresses
  BY PageSize DEF NULL, Addresses
<1>2. Pages \subseteq Nat
  BY KHeapAssumption
<1>3. TypeOK
  BY <1>1, <1>2 DEF Init, TypeOK, NoFill
<1>4. PagesInv
  BY DEF Init, PagesInv
<1>5. BootInv /\ HeapInv /\ WalkInv
  BY DEF Init, BootInv, HeapInv, WalkInv, HeapPages
<1> QED  BY <1>3, <1>4, <1>5 DEF IndInv

\* A step that leaves the heap alone.
LEMMA HeapKept ==
  ASSUME HeapInv, UNCHANGED <<hdr, blockListStart, blockListEnd, kheapSize, extents, live>>,
         HeapPages' = HeapPages, pc' = "boot" <=> pc = "boot"
  PROVE  HeapInv'
<1>1. HeapOK(hdr, blockListStart, blockListEnd, HeapPages, extents, live)
        => HeapOK(hdr, blockListStart, blockListEnd, HeapPages, extents, live)'
  <2>1. hdr' = hdr /\ blockListStart' = blockListStart /\ blockListEnd' = blockListEnd
        /\ extents' = extents /\ live' = live
    OBVIOUS
  <2> QED  BY <2>1
<1> QED  BY <1>1 DEF HeapInv

LEMMA WalkOnStep ==
  ASSUME IndInv, WalkOn PROVE IndInv'
<1>1. pc = "walk" /\ bh # NULL /\ ~Fits /\ bh' = hdr[bh].next /\ filled' = NoFill
      /\ UNCHANGED <<usable, phase, avail, owned, others, hdr, blockListStart, blockListEnd,
                     kheapSize, kheapSizeUsable, extents, pc, request, size, zeroing, depth, live>>
  BY DEF WalkOn, pageVars, listVars
<1>2. HeapOK(hdr, blockListStart, blockListEnd, HeapPages, extents, live)
  BY <1>1 DEF IndInv, HeapInv
<1>3. bh \in ListIn(hdr, blockListStart) /\ bh \in DOMAIN hdr /\ hdr[bh] \in HeaderType
  BY <1>1, <1>2, BlockFacts DEF IndInv, WalkInv
<1>4. TypeOK'
  <2>1. hdr[bh].next \in Addresses /\ NoFill \in Addresses \X Nat
    BY <1>3, PageSize DEF HeaderType, NoFill, Addresses
  <2> QED  BY <1>1, <2>1 DEF IndInv, TypeOK
<1>5. PagesInv' /\ BootInv' /\ HeapPages' = HeapPages
  BY <1>1 DEF IndInv, PagesInv, BootInv, HeapPages
<1>6. HeapInv'
  BY <1>1, <1>5, HeapKept DEF IndInv
<1>7. WalkInv'
  <2>1. LinkedIn(hdr, blockListStart, blockListEnd)
    BY <1>2 DEF HeapOK
  <2>2. hdr[bh].next \in ListIn(hdr, blockListStart) \cup {NULL}
    BY <1>3, <2>1 DEF LinkedIn
  <2>3. depth = 1 => hdr[bh].next # NULL
    BY <1>1, <1>3, <2>1 DEF LinkedIn, IndInv, WalkInv, Fits
  <2>4. ListIn(hdr, blockListStart)' = ListIn(hdr, blockListStart)
    BY <1>1 DEF ListIn, ClosedIn
  <2> QED  BY <1>1, <2>2, <2>3, <2>4 DEF IndInv, WalkInv
<1> QED  BY <1>4, <1>5, <1>6, <1>7 DEF IndInv

LEMMA kmallocStep ==
  ASSUME NoOverflow, IndInv, NEW n \in Sizes, NEW z \in BOOLEAN, kmalloc(n, z) PROVE IndInv'
<1>1. pc = "idle" /\ pc' = "walk" /\ request' = n /\ size' = Rounded(n) /\ zeroing' = z
      /\ bh' = blockListStart /\ depth' = 0 /\ filled' = NoFill
      /\ UNCHANGED <<usable, phase, avail, owned, others, hdr, blockListStart, blockListEnd,
                     kheapSize, kheapSizeUsable, extents, live>>
  BY DEF kmalloc, pageVars, listVars
<1>2. HeapOK(hdr, blockListStart, blockListEnd, HeapPages, extents, live)
  BY <1>1 DEF IndInv, HeapInv
<1>3. TypeOK'
  <2>1. n \in Addresses /\ Rounded(n) \in Addresses /\ NoFill \in Addresses \X Nat
    BY RoundedUp, PageSize DEF NoFill, Addresses
  <2> QED  BY <1>1, <2>1 DEF IndInv, TypeOK
<1>4. PagesInv' /\ BootInv' /\ HeapPages' = HeapPages
  BY <1>1 DEF IndInv, PagesInv, BootInv, HeapPages
<1>5. HeapInv'
  BY <1>1, <1>4, HeapKept DEF IndInv
<1>6. WalkInv'
  <2>1. blockListStart \in ListIn(hdr, blockListStart)
    BY <1>2 DEF HeapOK, LinkedIn
  <2>2. ListIn(hdr, blockListStart)' = ListIn(hdr, blockListStart)
    BY <1>1 DEF ListIn, ClosedIn
  <2>3. Rounded(request)' = Rounded(n)
    BY <1>1 DEF Rounded, ALIGN_UP, Word
  <2> QED  BY <1>1, <2>1, <2>2, <2>3 DEF WalkInv
<1> QED  BY <1>3, <1>4, <1>5, <1>6 DEF IndInv

LEMMA ClearStep ==
  ASSUME IndInv, kzalloc_clear PROVE IndInv'
<1>1. pc = "zero" /\ pc' = "idle" /\ filled' = <<bh + HDR, request>> /\ LocalsGone
      /\ UNCHANGED <<usable, phase, avail, owned, others, hdr, blockListStart, blockListEnd,
                     kheapSize, kheapSizeUsable, extents, live>>
  BY DEF kzalloc_clear, pageVars, listVars
<1>2. HeapOK(hdr, blockListStart, blockListEnd, HeapPages, extents, live)
  BY <1>1 DEF IndInv, HeapInv
<1>3. TypeOK'
  <2>1. bh + HDR \in Addresses /\ request \in Nat /\ NULL \in Addresses /\ 0 \in Addresses
    BY <1>1, <1>2, BlockFacts, PageSize DEF IndInv, WalkInv, TypeOK, Addresses, NULL
  <2> QED  BY <1>1, <2>1 DEF IndInv, TypeOK, LocalsGone
<1>4. PagesInv' /\ BootInv' /\ HeapPages' = HeapPages
  BY <1>1 DEF IndInv, PagesInv, BootInv, HeapPages
<1>5. HeapInv'
  BY <1>1, <1>4, HeapKept DEF IndInv
<1>6. WalkInv'
  BY <1>1 DEF WalkInv, LocalsGone
<1> QED  BY <1>3, <1>4, <1>5, <1>6 DEF IndInv

\* The machine halts, or a step changes nothing.
LEMMA HaltStep ==
  ASSUME IndInv, phase' \in {"run", "halt"}, UNCHANGED <<usable, avail, owned>>,
         UNCHANGED <<others, listVars, pc, callVars, live>>, filled' \in {filled, NoFill}
  PROVE  IndInv'
<1>1. UNCHANGED <<usable, avail, owned, others, hdr, blockListStart, blockListEnd, kheapSize,
                  kheapSizeUsable, extents, pc, bh, request, size, zeroing, depth, live>>
  BY DEF listVars, callVars
<1>2. TypeOK'
  <2>1. NoFill \in Addresses \X Nat
    BY PageSize DEF NoFill, Addresses
  <2>2. filled' \in Addresses \X Nat
    BY <2>1 DEF IndInv, TypeOK
  <2> QED  BY <1>1, <2>2 DEF IndInv, TypeOK
<1>3. PagesInv' /\ BootInv' /\ HeapPages' = HeapPages
  BY <1>1 DEF IndInv, PagesInv, BootInv, HeapPages
<1>4. HeapInv'
  BY <1>1, <1>3, HeapKept DEF IndInv
<1>5. WalkInv'
  <2>1. ListIn(hdr, blockListStart)' = ListIn(hdr, blockListStart)
    BY <1>1 DEF ListIn, ClosedIn
  <2>2. Rounded(request)' = Rounded(request)
    BY <1>1 DEF Rounded, ALIGN_UP, Word
  <2> QED  BY <1>1, <2>1, <2>2 DEF IndInv, WalkInv
<1> QED  BY <1>2, <1>3, <1>4, <1>5 DEF IndInv

\* Other users of pages do not touch the heap's.
LEMMA OtherStep ==
  ASSUME IndInv, pc \in {"boot", "idle"}, filled' = NoFill,
         UNCHANGED <<listVars, pc, callVars, live>>, UNCHANGED <<usable, phase>>,
         avail' \subseteq Pages, owned' \subseteq Pages, avail' \cap owned' = {},
         others' \subseteq owned', owned' \ others' = owned \ others
  PROVE  IndInv'
<1>1. UNCHANGED <<usable, phase, hdr, blockListStart, blockListEnd, kheapSize,
                  kheapSizeUsable, extents, pc, bh, request, size, zeroing, depth, live>>
  BY DEF listVars, callVars
<1>2. TypeOK'
  <2>1. NoFill \in Addresses \X Nat
    BY PageSize DEF NoFill, Addresses
  <2>2. usable = Pages
    BY DEF IndInv, PagesInv
  <2> QED  BY <1>1, <2>1, <2>2 DEF IndInv, TypeOK
<1>3. PagesInv' /\ HeapPages' = HeapPages
  BY <1>1 DEF IndInv, PagesInv, HeapPages
<1>4. BootInv'
  BY <1>1, <1>3 DEF IndInv, BootInv
<1>5. HeapInv'
  BY <1>1, <1>3, HeapKept DEF IndInv
<1>6. WalkInv'
  BY <1>1 DEF IndInv, WalkInv
<1> QED  BY <1>2, <1>3, <1>4, <1>5, <1>6 DEF IndInv

LEMMA OtherAllocStep ==
  ASSUME IndInv, NEW n, OtherAlloc(n) PROVE IndInv'
<1>1. PICK b \in avail : PMM!Alloc(b, n) /\ others' = others \cup PMM!Run(b, n)
  BY DEF OtherAlloc
<1>2. /\ PMM!Run(b, n) \subseteq avail
      /\ avail' = avail \ PMM!Run(b, n) /\ owned' = owned \cup PMM!Run(b, n)
      /\ UNCHANGED <<usable, phase>>
  BY <1>1 DEF PMM!Alloc, PMM!IsFirstFit
<1>3. /\ avail' \subseteq Pages /\ owned' \subseteq Pages /\ avail' \cap owned' = {}
      /\ others' \subseteq owned' /\ owned' \ others' = owned \ others
  BY <1>1, <1>2 DEF IndInv, PagesInv
<1> QED  BY <1>2, <1>3, OtherStep DEF OtherAlloc

LEMMA OtherFreeStep ==
  ASSUME IndInv, NEW b, NEW n, OtherFree(b, n) PROVE IndInv'
<1>1. /\ PMM!Run(b, n) \subseteq others /\ others' = others \ PMM!Run(b, n)
      /\ avail' = avail \cup PMM!Run(b, n) /\ owned' = owned \ PMM!Run(b, n)
      /\ UNCHANGED <<usable, phase>>
  BY DEF OtherFree, PMM!Free
<1>2. /\ avail' \subseteq Pages /\ owned' \subseteq Pages /\ avail' \cap owned' = {}
      /\ others' \subseteq owned' /\ owned' \ others' = owned \ others
  BY <1>1 DEF IndInv, PagesInv
<1> QED  BY <1>1, <1>2, OtherStep DEF OtherFree

\* The heap gets k pages, from page b on.
LEMMA NewPages ==
  ASSUME IndInv, NEW b, NEW k \in Nat \ {0}, PMM!Alloc(b, k), others' = others
  PROVE  LET R == PMM!Run(b, k)
             start == b * PAGE_SIZE
             sz == k * PAGE_SIZE - HDR
         IN  /\ start \in Addresses /\ start # NULL /\ start + HDR \in Addresses
             /\ sz \in Addresses /\ sz \in Nat \ {0} /\ HDR + sz = k * PAGE_SIZE
             /\ start + HDR + sz <= WORD
             /\ Spans(R, start, HDR + sz)
             /\ HeapPages' = HeapPages \cup R /\ Apart(HeapPages, R)
             /\ IsFiniteSet(R) /\ Cardinality(R) = k
             /\ PagesInv'
             /\ phase' = phase /\ usable' = usable
             /\ avail' \subseteq usable /\ owned' \subseteq usable /\ others \subseteq owned'
<1> DEFINE R == PMM!Run(b, k)
           start == b * PAGE_SIZE
           bytes == k * PAGE_SIZE
           sz == bytes - HDR
<1>1. /\ b \in avail /\ R \subseteq avail /\ avail' = avail \ R /\ owned' = owned \cup R
      /\ usable' = usable /\ phase' = phase
  BY DEF PMM!Alloc, PMM!IsFirstFit
<1>2. /\ usable = Pages /\ avail \subseteq Pages /\ owned \subseteq Pages
      /\ avail \cap owned = {} /\ others \subseteq owned
  BY DEF IndInv, PagesInv
<1>3. R = b .. (b + k - 1)
  BY DEF PMM!Run
<1>4. b \in Nat \ {0} /\ \A p \in R : p \in Nat /\ (p + 1) * PAGE_SIZE <= WORD
  BY <1>1, <1>2, KHeapAssumption
<1>5. (b + k) * PAGE_SIZE <= WORD
  <2>1. b + k - 1 \in R
    BY <1>3, <1>4
  <2>2. (b + k - 1) + 1 = b + k
    BY <1>4
  <2> QED  BY <1>4, <2>1, <2>2
<1>6. start \in Nat /\ bytes \in Nat /\ start + bytes <= WORD /\ start >= PAGE_SIZE /\ bytes >= PAGE_SIZE
  <2>1. (b + k) * PAGE_SIZE = start + bytes
    BY <1>4, PageSize
  <2>2. start \in Nat /\ bytes \in Nat
    BY <1>4, PageSize
  <2>3. start >= PAGE_SIZE /\ bytes >= PAGE_SIZE
    BY <1>4, PageSize
  <2> QED  BY <1>5, <2>1, <2>2, <2>3
<1>7. HDR < PAGE_SIZE
  BY KHeapAssumption
<1> HIDE DEF start, bytes
<1>8. /\ start \in Addresses /\ start # NULL /\ start + HDR \in Addresses
      /\ sz \in Addresses /\ sz \in Nat \ {0} /\ HDR + sz = bytes
      /\ start + HDR + sz <= WORD
  BY <1>6, <1>7, PageSize DEF Addresses, NULL
<1>9. Spans(R, start, HDR + sz)
  <2>1. ASSUME NEW x \in Nat PROVE InPages(x, R) <=> start <= x /\ x < start + bytes
    BY <1>3, <1>4, RunBytes DEF start, bytes
  <2> QED  BY <1>8, <2>1 DEF Spans
<1>10. HeapPages' = HeapPages \cup R /\ Apart(HeapPages, R) /\ PagesInv'
  BY <1>1, <1>2 DEF HeapPages, Apart, PagesInv
<1>11. IsFiniteSet(R) /\ Cardinality(R) = k
  <2>1. b \in Int /\ b + k - 1 \in Int /\ ~ (b > b + k - 1) /\ (b + k - 1) - b + 1 = k
    BY <1>4
  <2> QED  BY <1>3, <2>1, FS_Interval
<1>12. avail' \subseteq usable /\ owned' \subseteq usable /\ others \subseteq owned'
  BY <1>1, <1>2
<1> QED  BY <1>1, <1>8, <1>9, <1>10, <1>11, <1>12 DEF start, bytes

LEMMA InitStep ==
  ASSUME IndInv, kheap_init PROVE IndInv'
<1>1. PICK b \in avail :
        /\ PMM!Alloc(b, KHEAP_INIT_PAGES)
        /\ blockListStart' = b * PAGE_SIZE /\ blockListEnd' = b * PAGE_SIZE
        /\ hdr' = [a \in {b * PAGE_SIZE} |-> Header(KHEAP_INIT_PAGES * PAGE_SIZE - HDR, NULL, NULL)]
        /\ kheapSize' = KHEAP_INIT_PAGES * PAGE_SIZE
        /\ kheapSizeUsable' = KHEAP_INIT_PAGES * PAGE_SIZE - HDR
        /\ extents' = {b * PAGE_SIZE}
        /\ filled' = <<b * PAGE_SIZE, HDR>>
  BY DEF kheap_init
<1>2. pc = "boot" /\ pc' = "idle" /\ UNCHANGED <<others, bh, request, size, zeroing, depth, live>>
  BY DEF kheap_init, callVars
<1> DEFINE k == KHEAP_INIT_PAGES
           R == PMM!Run(b, k)
           start == b * PAGE_SIZE
           sz == k * PAGE_SIZE - HDR
<1>3. k \in Nat \ {0}
  BY KHeapAssumption
<1>4. /\ start \in Addresses /\ start # NULL /\ start + HDR \in Addresses
      /\ sz \in Addresses /\ sz \in Nat \ {0} /\ HDR + sz = k * PAGE_SIZE
      /\ start + HDR + sz <= WORD
      /\ Spans(R, start, HDR + sz)
      /\ HeapPages' = HeapPages \cup R
      /\ IsFiniteSet(R) /\ Cardinality(R) = k
      /\ PagesInv'
      /\ phase' = phase /\ usable' = usable
      /\ avail' \subseteq usable /\ owned' \subseteq usable /\ others \subseteq owned'
  BY <1>1, <1>2, <1>3, NewPages
<1>5. DOMAIN live = {} /\ HeapPages = {} /\ depth = 0
  BY <1>2 DEF IndInv, BootInv
<1>6. HeapOK(hdr, blockListStart, blockListEnd, HeapPages, extents, live)'
  <2>1. HeapPages' = R
    BY <1>4, <1>5
  <2> HIDE DEF R, start, sz
  <2>2. hdr' = [a \in {start} |-> Header(sz, NULL, NULL)]
    BY <1>1 DEF start, sz
  <2>3. HeapOK(hdr', start, start, R, extents', live')
    BY <1>2, <1>4, <1>5, <2>2, StartOK
  <2> QED  BY <1>1, <2>1, <2>3 DEF start
<1>7. HeapInv'
  <2>1. HeapPages' = R
    BY <1>4, <1>5
  <2> QED  BY <1>1, <1>4, <1>6, <2>1 DEF HeapInv
<1>8. TypeOK'
  <2>1. Headers(hdr')
    BY <1>6 DEF HeapOK
  <2>2. DOMAIN hdr' \subseteq Addresses /\ \A a \in DOMAIN hdr' : hdr'[a] \in HeaderType
    BY <2>1 DEF Headers
  <2>3. k * PAGE_SIZE \in Nat /\ HDR \in Nat
    BY <1>3, PageSize
  <2>4. kheapSize' \in Nat /\ kheapSizeUsable' \in Nat /\ extents' \subseteq Addresses
        /\ filled' \in Addresses \X Nat
        /\ blockListStart' \in Addresses /\ blockListEnd' \in Addresses
    BY <1>1, <1>4, <2>3
  <2> HIDE DEF R, start, sz, k
  <2> QED  BY <1>2, <1>4, <2>2, <2>4 DEF IndInv, TypeOK, HeaderType
<1>9. BootInv' /\ WalkInv'
  BY <1>2, <1>5 DEF BootInv, WalkInv
<1> QED  BY <1>4, <1>7, <1>8, <1>9 DEF IndInv

LEMMA ExtendStep ==
  ASSUME NoOverflow, IndInv, kheap_extend PROVE IndInv'
<1> DEFINE bytes == ExtentBytes(size)
           k == PageCount(bytes)
           sz == k * PAGE_SIZE - HDR
<1>1. PICK b \in avail :
        LET newbh == b * PAGE_SIZE IN
        /\ PMM!Alloc(b, PageCount(bytes))
        /\ hdr' = [a \in DOMAIN hdr \cup {newbh} |->
                     CASE a = newbh -> Header(bytes - HDR, NULL, blockListEnd)
                       [] a = blockListEnd -> [hdr[a] EXCEPT !.next = newbh]
                       [] OTHER -> hdr[a]]
        /\ blockListEnd' = newbh
        /\ kheapSize' = kheapSize + bytes
        /\ kheapSizeUsable' = kheapSizeUsable + bytes - HDR
        /\ extents' = extents \cup {newbh}
        /\ filled' = <<newbh, bytes>>
  BY DEF kheap_extend
<1>2. /\ pc = "walk" /\ bh = NULL /\ bh' = blockListStart /\ depth' = depth + 1
      /\ UNCHANGED <<others, blockListStart, pc, request, size, zeroing, live>>
  BY DEF kheap_extend
<1>3. request \in Sizes /\ size = Rounded(request) /\ depth = 0
  BY <1>2 DEF IndInv, WalkInv
<1>4. /\ k \in Nat \ {0} /\ bytes = k * PAGE_SIZE /\ size \in Nat /\ size + HDR <= bytes
  BY <1>3, ExtentFacts
<1> DEFINE R == PMM!Run(b, k)
           new == b * PAGE_SIZE
           e == blockListEnd
           s == blockListStart
<1>5. /\ new \in Addresses /\ new # NULL /\ new + HDR \in Addresses
      /\ sz \in Addresses /\ sz \in Nat \ {0} /\ HDR + sz = k * PAGE_SIZE
      /\ new + HDR + sz <= WORD
      /\ Spans(R, new, HDR + sz)
      /\ HeapPages' = HeapPages \cup R /\ Apart(HeapPages, R)
      /\ IsFiniteSet(R) /\ Cardinality(R) = k
      /\ PagesInv'
      /\ phase' = phase /\ usable' = usable
      /\ avail' \subseteq usable /\ owned' \subseteq usable /\ others \subseteq owned'
  BY <1>1, <1>2, <1>4, NewPages
<1>6. /\ HeapOK(hdr, s, e, HeapPages, extents, live)
      /\ IsFiniteSet(HeapPages) /\ kheapSize = Cardinality(HeapPages) * PAGE_SIZE
  BY <1>2 DEF IndInv, HeapInv
<1>7. e \in DOMAIN hdr /\ e \in ListIn(hdr, s) /\ s \in ListIn(hdr, s)
  BY <1>6, BlockFacts DEF HeapOK, LinkedIn
<1>8. \A a \in DOMAIN hdr : hdr[a] \in HeaderType /\ a \in Addresses /\ a # NULL /\ a + HDR \in Addresses
  BY <1>6, BlockFacts
<1>9. new \notin DOMAIN hdr
  <2>1. InPages(new, R)
    BY <1>5, PageSize DEF Spans, Addresses
  <2>2. \A a \in DOMAIN hdr : InPages(a, HeapPages)
    BY <1>6 DEF HeapOK, StaleIn
  <2> QED  BY <1>5, <2>1, <2>2 DEF InPages, Apart
<1>10. /\ DOMAIN hdr' = DOMAIN hdr \cup {new}
       /\ hdr'[new] = Header(sz, NULL, e)
       /\ hdr'[e] = [hdr[e] EXCEPT !.next = new]
       /\ \A a \in DOMAIN hdr \ {e} : hdr'[a] = hdr[a]
  <2>1. hdr' = [a \in DOMAIN hdr \cup {new} |->
                     CASE a = new -> Header(sz, NULL, e)
                       [] a = e -> [hdr[a] EXCEPT !.next = new]
                       [] OTHER -> hdr[a]]
    BY <1>1, <1>4
  <2> HIDE DEF new, e, sz
  <2>2. e # new
    BY <1>7, <1>9
  <2>3. DOMAIN hdr' = DOMAIN hdr \cup {new} /\ hdr'[new] = Header(sz, NULL, e)
    BY <1>9, <2>1, <2>2
  <2>4. hdr'[e] = [hdr[e] EXCEPT !.next = new]
    BY <1>7, <2>1, <2>2
  <2>5. ASSUME NEW a \in DOMAIN hdr \ {e} PROVE hdr'[a] = hdr[a]
    <3>1. a # new /\ a # e
      BY <1>9
    <3> QED  BY <2>1, <3>1
  <2> QED  BY <2>3, <2>4, <2>5
<1> HIDE DEF new, e, sz, k, bytes, R
<1>11. hdr'[e] \in HeaderType /\ hdr'[e].next = new /\ hdr'[e].size = hdr[e].size
       /\ hdr'[e].prev = hdr[e].prev /\ hdr'[e].free = hdr[e].free
  BY <1>5, <1>7, <1>8, <1>10 DEF HeaderType
<1>12. Headers(hdr')
  <2>1. NULL \in Addresses /\ e \in Addresses
    BY <1>7, <1>8, PageSize DEF NULL, Addresses
  <2>2. hdr'[new] \in HeaderType
    BY <1>5, <1>10, <2>1 DEF Header, HeaderType
  <2> QED  BY <1>5, <1>8, <1>10, <1>11, <2>2 DEF Headers
<1>13. Extended(hdr, hdr', e, new, sz)
  BY <1>10, <1>11 DEF Extended
<1>14. new \in Nat /\ sz \in Nat
  BY <1>5 DEF Addresses
<1>15. /\ HeapOK(hdr', s, new, HeapPages \cup R, extents \cup {new}, live)
       /\ ListIn(hdr', s) = ListIn(hdr, s) \cup {new}
  <2>1. Appended(hdr, hdr', s, HeapPages, R, extents, live, new)
    BY <1>5, <1>6, <1>12, <1>13, <1>14, ExtendOK
  <2> QED  BY <2>1 DEF Appended
<1>16. blockListEnd' = new /\ extents' = extents \cup {new} /\ blockListStart' = s /\ live' = live
  BY <1>1, <1>2 DEF new
<1>17. HeapOK(hdr, blockListStart, blockListEnd, HeapPages, extents, live)'
  BY <1>5, <1>15, <1>16
<1>18. HeapInv'
  <2>1. IsFiniteSet(HeapPages \cup R) /\ Cardinality(HeapPages \cup R) = Cardinality(HeapPages) + k
    <3>1. HeapPages \cap R = {}
      BY <1>5 DEF Apart
    <3>2. Cardinality(HeapPages \cap R) = 0
      BY <3>1, FS_EmptySet
    <3>3. IsFiniteSet(HeapPages) /\ IsFiniteSet(R) /\ Cardinality(HeapPages) \in Nat /\ k \in Nat
      BY <1>4, <1>5, <1>6, FS_CardinalityType
    <3>4. /\ IsFiniteSet(HeapPages \cup R)
          /\ Cardinality(HeapPages \cup R) = Cardinality(HeapPages) + Cardinality(R) - Cardinality(HeapPages \cap R)
      BY <3>3, FS_Union
    <3> QED  BY <1>5, <3>2, <3>3, <3>4
  <2>2. kheapSize' = (Cardinality(HeapPages) + k) * PAGE_SIZE
    <3>1. Cardinality(HeapPages) \in Nat
      BY <1>6, FS_CardinalityType
    <3>2. kheapSize' = kheapSize + bytes
      BY <1>1
    <3> QED  BY <1>4, <1>6, <3>1, <3>2, PageSize
  <2> QED  BY <1>5, <1>17, <2>1, <2>2 DEF HeapInv
<1>19. TypeOK'
  <2>1. DOMAIN hdr' \subseteq Addresses /\ \A a \in DOMAIN hdr' : hdr'[a] \in HeaderType
    BY <1>12 DEF Headers
  <2>2. bytes \in Nat /\ kheapSize \in Nat /\ kheapSizeUsable \in Nat /\ bytes - HDR \in Nat
    BY <1>4, PageSize DEF IndInv, TypeOK
  <2>3. kheapSize' \in Nat /\ kheapSizeUsable' \in Nat
    BY <1>1, <2>2, PageSize
  <2>4. filled' \in Addresses \X Nat
    <3>1. filled' = <<new, bytes>>
      BY <1>1 DEF new
    <3> QED  BY <1>5, <2>2, <3>1
  <2>5. extents' \subseteq Addresses /\ blockListEnd' \in Addresses /\ depth' \in Nat
    <3>1. extents \subseteq Addresses
      BY DEF IndInv, TypeOK
    <3> QED  BY <1>2, <1>3, <1>5, <1>16, <3>1
  <2>6. bh' \in Addresses
    BY <1>2 DEF IndInv, TypeOK
  <2> QED  BY <1>2, <1>5, <2>1, <2>3, <2>4, <2>5, <2>6 DEF IndInv, TypeOK, HeaderType
<1>20. BootInv'
  BY <1>2 DEF BootInv
<1>21. WalkInv'
  <2>1. hdr'[new].free /\ hdr'[new].size = sz /\ sz >= size
    <3>1. sz >= size
      BY <1>4, PageSize DEF sz
    <3> QED  BY <1>10, <3>1 DEF Header
  <2>2. s \in ListIn(hdr', s) /\ s # NULL
    BY <1>7, <1>8, <1>15, BlockFacts, <1>6
  <2>3. Rounded(request)' = Rounded(request)
    BY <1>2 DEF Rounded, ALIGN_UP, Word
  <2> QED  BY <1>2, <1>3, <1>16, <2>1, <2>2, <2>3 DEF WalkInv
<1> QED  BY <1>5, <1>18, <1>19, <1>20, <1>21 DEF IndInv

\* kmalloc found a block and returns it.
LEMMA ReturnStep ==
  ASSUME IndInv, pc = "walk", Return, bh \in ListIn(hdr', blockListStart), bh + HDR \in Addresses,
         HeapOK(hdr', blockListStart, blockListEnd', HeapPages, extents, live'),
         filled' \in Addresses \X Nat,
         UNCHANGED <<pageVars, others, blockListStart, kheapSize, kheapSizeUsable, extents>>
  PROVE  IndInv'
<1>1. UNCHANGED <<usable, phase, avail, owned, others, blockListStart, kheapSize,
                  kheapSizeUsable, extents>>
  BY DEF pageVars
<1>2. /\ live' = [p \in DOMAIN live \cup {bh + HDR} |-> IF p = bh + HDR THEN request ELSE live[p]]
      /\ \/ pc' = "zero" /\ UNCHANGED <<bh, request, size, zeroing, depth>>
         \/ pc' = "idle" /\ LocalsGone
  BY DEF Return, callVars
<1>3. HeapPages' = HeapPages /\ PagesInv'
  BY <1>1 DEF IndInv, PagesInv, HeapPages
<1>4. HeapInv'
  <2>1. HeapOK(hdr, blockListStart, blockListEnd, HeapPages, extents, live)'
    BY <1>1, <1>3
  <2>2. IsFiniteSet(HeapPages) /\ kheapSize = Cardinality(HeapPages) * PAGE_SIZE
    BY DEF IndInv, HeapInv
  <2> QED  BY <1>1, <1>3, <2>1, <2>2 DEF HeapInv
<1>5. Headers(hdr') /\ LinkedIn(hdr', blockListStart, blockListEnd')
  BY DEF HeapOK
<1>6. DOMAIN hdr' \subseteq Addresses /\ \A a \in DOMAIN hdr' : hdr'[a] \in HeaderType
  BY <1>5 DEF Headers
<1>7. blockListEnd' \in Addresses
  BY <1>5, <1>6, ListFacts DEF LinkedIn
<1>8. TypeOK'
  <2>1. DOMAIN live' \subseteq Addresses /\ \A p \in DOMAIN live' : live'[p] \in Addresses
    BY <1>2 DEF IndInv, TypeOK
  <2>2. bh' \in Addresses /\ request' \in Addresses /\ size' \in Addresses
        /\ zeroing' \in BOOLEAN /\ depth' \in Nat /\ pc' \in {"boot", "idle", "walk", "zero"}
    <3>1. NULL \in Addresses /\ 0 \in Addresses
      BY PageSize DEF NULL, Addresses
    <3>2. zeroing' \in BOOLEAN
      BY <1>2, Zenon DEF IndInv, TypeOK, LocalsGone
    <3>3. bh' \in Addresses /\ request' \in Addresses /\ size' \in Addresses /\ depth' \in Nat
      BY <1>2, <3>1 DEF IndInv, TypeOK, LocalsGone
    <3> QED  BY <1>2, <3>2, <3>3
  <2> QED  BY <1>1, <1>6, <1>7, <2>1, <2>2 DEF IndInv, TypeOK, HeaderType
<1>9. BootInv'
  BY <1>2 DEF BootInv
<1>10. WalkInv'
  <2>1. CASE pc' = "idle" /\ LocalsGone
    BY <2>1 DEF WalkInv, LocalsGone
  <2>2. CASE pc' = "zero" /\ UNCHANGED <<bh, request, size, zeroing, depth>>
    <3>1. bh + HDR \in DOMAIN live' /\ live'[bh + HDR] = request
      BY <1>2
    <3>2. depth \in {0, 1}
      BY DEF IndInv, WalkInv
    <3> QED  BY <1>1, <2>2, <3>1, <3>2 DEF WalkInv
  <2> QED  BY <1>2, <2>1, <2>2
<1> QED  BY <1>3, <1>4, <1>8, <1>9, <1>10 DEF IndInv

\* What kmalloc knows of the block it takes.
LEMMA TakenBlock ==
  ASSUME NoOverflow, IndInv, pc = "walk", bh # NULL, Fits
  PROVE  /\ HeapOK(hdr, blockListStart, blockListEnd, HeapPages, extents, live)
         /\ bh \in ListIn(hdr, blockListStart) /\ bh \in DOMAIN hdr
         /\ bh \in Nat /\ bh + HDR \in Addresses /\ hdr[bh].size \in Nat
         /\ hdr[bh].free /\ size <= hdr[bh].size
         /\ request \in Nat /\ request <= size /\ size \in Nat
         /\ Word(size + HDR) = size + HDR
<1>1. HeapOK(hdr, blockListStart, blockListEnd, HeapPages, extents, live)
  BY DEF IndInv, HeapInv
<1>2. /\ request \in Sizes /\ size = Rounded(request) /\ bh \in ListIn(hdr, blockListStart)
  BY DEF IndInv, WalkInv
<1>3. bh \in DOMAIN hdr /\ bh \in Nat /\ bh + HDR \in Addresses /\ hdr[bh].size \in Nat
  BY <1>1, <1>2, BlockFacts
<1>4. request \in Nat /\ request <= size /\ size \in Nat
  BY <1>2, RoundedUp
<1>5. Word(size + HDR) = size + HDR
  BY <1>2, ExtentFacts
<1>6. hdr[bh].free /\ size <= hdr[bh].size
  BY <1>3, <1>4 DEF Fits
<1> QED  BY <1>1, <1>2, <1>3, <1>4, <1>5, <1>6

\* What TakeWhole makes of the heap.
LEMMA TakeWholeHeap ==
  ASSUME NoOverflow, IndInv, TakeWhole
  PROVE  /\ HeapOK(hdr', blockListStart, blockListEnd', HeapPages, extents, live')
         /\ bh \in ListIn(hdr', blockListStart)
         /\ \A a \in DOMAIN hdr' : a \in DOMAIN hdr /\ hdr'[a].size = hdr[a].size
<1>1. pc = "walk" /\ bh # NULL /\ Fits /\ Return /\ blockListEnd' = blockListEnd
      /\ hdr' = [Intact(bh + HDR, End(bh)) EXCEPT ![bh].free = FALSE]
  BY DEF TakeWhole
<1>2. Given(live, live', bh + HDR, request)
  BY <1>1 DEF Return, Given
<1>3. /\ HeapOK(hdr, blockListStart, blockListEnd, HeapPages, extents, live)
      /\ bh \in ListIn(hdr, blockListStart) /\ hdr[bh].free /\ size <= hdr[bh].size
      /\ request \in Nat /\ request <= size /\ size \in Nat /\ hdr[bh].size \in Nat
  BY <1>1, TakenBlock
<1> DEFINE h == Intact(bh + HDR, End(bh))
<1>4. /\ HeapOK(h, blockListStart, blockListEnd, HeapPages, extents, live)
      /\ ListIn(h, blockListStart) = ListIn(hdr, blockListStart)
      /\ DOMAIN h \subseteq DOMAIN hdr
      /\ \A a \in DOMAIN h : h[a] = hdr[a]
  BY <1>3, IntactOK
<1>5. bh \in ListIn(h, blockListStart) /\ bh \in DOMAIN h
  BY <1>3, <1>4, BlockFacts
<1>6. h[bh].free /\ request <= h[bh].size
  BY <1>3, <1>4, <1>5
<1> HIDE DEF h
<1>7. Marked(h, hdr', bh, FALSE)
  BY <1>1 DEF h, Marked
<1>8. /\ HeapOK(hdr', blockListStart, blockListEnd, HeapPages, extents, live')
      /\ ListIn(hdr', blockListStart) = ListIn(h, blockListStart)
      /\ \A a \in DOMAIN h : hdr'[a].size = h[a].size
  <2>1. Reflagged(h, hdr', blockListStart, blockListEnd, HeapPages, extents, live')
    BY <1>2, <1>3, <1>4, <1>5, <1>6, <1>7, UseOK
  <2> QED  BY <2>1 DEF Reflagged
<1>9. DOMAIN hdr' = DOMAIN h
  BY <1>7 DEF Marked
<1> QED  BY <1>1, <1>4, <1>5, <1>8, <1>9

LEMMA TakeWholeStep ==
  ASSUME NoOverflow, IndInv, TakeWhole PROVE IndInv'
<1>1. /\ HeapOK(hdr', blockListStart, blockListEnd', HeapPages, extents, live')
      /\ bh \in ListIn(hdr', blockListStart)
  BY TakeWholeHeap
<1>2. bh + HDR \in Addresses
  BY TakenBlock DEF TakeWhole
<1>3. NoFill \in Addresses \X Nat
  BY PageSize DEF NoFill, Addresses
<1> QED  BY <1>1, <1>2, <1>3, ReturnStep DEF TakeWhole

\* What TakeSplit makes of the heap.
LEMMA TakeSplitHeap ==
  ASSUME NoOverflow, IndInv, TakeSplit
  PROVE  /\ HeapOK(hdr', blockListStart, blockListEnd', HeapPages, extents, live')
         /\ bh \in ListIn(hdr', blockListStart)
         /\ bh + HDR + size \in Addresses /\ filled' = <<bh + HDR + size, HDR>>
         /\ size + HDR < hdr[bh].size
         /\ \A a \in DOMAIN hdr \cap DOMAIN hdr' :
              a # bh /\ a # bh + HDR + size => hdr'[a].size = hdr[a].size
         /\ hdr'[bh].size = size
<1> DEFINE h == Intact(bh + HDR, bh + HDR + size + HDR)
           new == bh + HDR + size
<1>1. pc = "walk" /\ bh # NULL /\ Fits /\ ~TooSmallToSplit /\ Return
      /\ kheap_create_block(h, bh, size)
  BY DEF TakeSplit
<1>2. Given(live, live', bh + HDR, request)
  BY <1>1 DEF Return, Given
<1>3. /\ HeapOK(hdr, blockListStart, blockListEnd, HeapPages, extents, live)
      /\ bh \in ListIn(hdr, blockListStart) /\ hdr[bh].free
      /\ bh \in Nat /\ hdr[bh].size \in Nat /\ bh + HDR \in Addresses
      /\ request \in Nat /\ request <= size /\ size \in Nat
      /\ Word(size + HDR) = size + HDR
  BY <1>1, TakenBlock
<1>4. size + HDR < hdr[bh].size
  BY <1>1, <1>3, PageSize DEF TooSmallToSplit
<1>5. /\ HeapOK(h, blockListStart, blockListEnd, HeapPages, extents, live)
      /\ ListIn(h, blockListStart) = ListIn(hdr, blockListStart)
      /\ DOMAIN h \subseteq DOMAIN hdr
      /\ \A a \in DOMAIN h : h[a] = hdr[a]
      /\ \A a \in DOMAIN h : \/ a + HDR <= bh + HDR
                             \/ bh + HDR + size + HDR <= a
                             \/ a \in ListIn(hdr, blockListStart)
  BY <1>3, IntactOK
<1> HIDE DEF h
<1>6. bh \in ListIn(h, blockListStart) /\ bh \in DOMAIN h
  BY <1>3, <1>5, BlockFacts
<1>7. h[bh].free /\ size + HDR < h[bh].size /\ h[bh] = hdr[bh]
  BY <1>3, <1>4, <1>5, <1>6
<1>8. EndIn(h, bh) <= WORD /\ EndIn(h, bh) = bh + HDR + h[bh].size /\ h[bh].size \in Nat
  BY <1>5, <1>6, BlockFacts
<1>9. new \in Nat /\ bh < new /\ new + HDR < EndIn(h, bh) /\ new < EndIn(h, bh)
      /\ new \in Addresses /\ new + HDR \in Addresses
  BY <1>3, <1>7, <1>8, PageSize DEF Addresses
<1>10. new \notin DOMAIN h
  <2>1. new \notin ListIn(h, blockListStart)
    BY <1>5, <1>6, <1>9, NoneInside
  <2>2. ~ (new + HDR <= bh + HDR) /\ ~ (bh + HDR + size + HDR <= new)
    BY <1>3, <1>9, PageSize
  <2> HIDE DEF new
  <2> QED  BY <1>5, <2>1, <2>2
<1>11. (h[bh].next # NULL => h[bh].next \in DOMAIN h) /\ h[bh].next # bh
  <2>1. LinkedIn(h, blockListStart, blockListEnd)
    BY <1>5 DEF HeapOK
  <2>2. h[bh].next # NULL => /\ h[bh].next \in ListIn(h, blockListStart)
                             /\ h[h[bh].next].prev = bh
    BY <1>6, <2>1 DEF LinkedIn
  <2>3. h[bh].next \in DOMAIN h \cup {NULL}
    BY <1>5, <2>2, BlockFacts
  <2>4. ASSUME h[bh].next = bh PROVE FALSE
    <3>1. bh # NULL /\ h[bh].prev = bh
      BY <1>1, <2>2, <2>4
    <3>2. h[blockListStart].prev = NULL /\ blockListStart \in ListIn(h, blockListStart)
      BY <2>1 DEF LinkedIn
    <3>3. blockListStart # bh
      BY <3>1, <3>2
    <3>4. ListIn(h, blockListStart) \subseteq DOMAIN h
          /\ ClosedIn(h, blockListStart, ListIn(h, blockListStart))
      BY <2>1, ListFacts
    <3> DEFINE S == ListIn(h, blockListStart) \ {bh}
    <3>5. ClosedIn(h, blockListStart, S)
      <4>1. ASSUME NEW b \in S PROVE h[b].next \in S \cup {NULL}
        <5>1. h[b].next # bh
          BY <1>1, <2>1, <3>1, <4>1 DEF LinkedIn
        <5> QED  BY <3>4, <5>1 DEF ClosedIn
      <4> QED  BY <3>2, <3>3, <4>1 DEF ClosedIn
    <3>6. ListIn(h, blockListStart) \subseteq S
      BY <3>4, <3>5, ListLeast
    <3> QED  BY <1>6, <3>6
  <2> QED  BY <1>1, <2>3, <2>4
<1>12. Parted(h, hdr', bh, size) /\ Headers(hdr')
  <2>1. Headers(h)
    BY <1>5 DEF HeapOK
  <2> QED  BY <1>1, <1>3, <1>6, <1>7, <1>9, <1>10, <1>11, <2>1, CreateParts
<1>13. blockListEnd' = (IF bh = blockListEnd THEN new ELSE blockListEnd) /\ filled' = <<new, HDR>>
  BY <1>1 DEF kheap_create_block
<1> HIDE DEF new
<1>14. /\ HeapOK(hdr', blockListStart, IF bh = blockListEnd THEN new ELSE blockListEnd,
                 HeapPages, extents, live')
       /\ ListIn(hdr', blockListStart) = ListIn(h, blockListStart) \cup {new}
  <2>1. new = bh + HDR + size
    BY DEF new
  <2> QED  BY <1>2, <1>3, <1>5, <1>6, <1>7, <1>10, <1>12, <2>1, PartOK
<1>15. bh \in ListIn(hdr', blockListStart)
  BY <1>6, <1>14
<1>16. /\ \A a \in DOMAIN hdr \cap DOMAIN hdr' : a # bh /\ a # new => hdr'[a].size = hdr[a].size
       /\ hdr'[bh].size = size
  <2>1. new = bh + HDR + size /\ bh # new
    BY <1>3, <1>9 DEF new
  <2>2. bh \in DOMAIN hdr' /\ DOMAIN hdr' = DOMAIN h \cup {new}
    BY <1>6, <1>12, <2>1 DEF Parted
  <2>3. \A x \in DOMAIN hdr' :
          hdr'[x].size = IF x = new THEN h[bh].size - (size + HDR)
                         ELSE IF x = bh THEN size ELSE h[x].size
    BY <1>12, <2>1 DEF Parted
  <2> QED  BY <1>5, <2>1, <2>2, <2>3
<1> QED  BY <1>4, <1>9, <1>13, <1>14, <1>15, <1>16 DEF new

LEMMA TakeSplitStep ==
  ASSUME NoOverflow, IndInv, TakeSplit PROVE IndInv'
<1>1. /\ HeapOK(hdr', blockListStart, blockListEnd', HeapPages, extents, live')
      /\ bh \in ListIn(hdr', blockListStart)
      /\ filled' = <<bh + HDR + size, HDR>> /\ bh + HDR + size \in Addresses
  BY TakeSplitHeap
<1>2. bh + HDR \in Addresses
  BY TakenBlock DEF TakeSplit
<1>3. filled' \in Addresses \X Nat
  BY <1>1, PageSize
<1> QED  BY <1>1, <1>2, <1>3, ReturnStep DEF TakeSplit

\* A block that kfree finds used is a block of the list, and has a holder.
LEMMA FreedBlock ==
  ASSUME IndInv, NEW p \in Freeable, pc = "idle", p # NULL, ~hdr[p - HDR].free
  PROVE  /\ HeapOK(hdr, blockListStart, blockListEnd, HeapPages, extents, live)
         /\ p - HDR \in ListIn(hdr, blockListStart) /\ p - HDR \in DOMAIN hdr
         /\ p - HDR + HDR = p /\ p \in Addresses /\ p \in DOMAIN live
         /\ hdr[p - HDR].size \in Nat
<1>1. HeapOK(hdr, blockListStart, blockListEnd, HeapPages, extents, live)
  BY DEF IndInv, HeapInv
<1>2. PICK a \in DOMAIN hdr : p = a + HDR
  BY DEF Freeable
<1>3. a \in Nat /\ a + HDR \in Addresses /\ hdr[a].size \in Nat
  BY <1>1, BlockFacts
<1>4. p - HDR = a /\ a + HDR = p
  BY <1>2, <1>3, PageSize
<1>5. a \in ListIn(hdr, blockListStart)
  BY <1>1, <1>4 DEF HeapOK, StaleIn
<1>6. a + HDR \in DOMAIN live
  BY <1>1, <1>4, <1>5 DEF HeapOK, HeldIn
<1> QED  BY <1>1, <1>2, <1>3, <1>4, <1>5, <1>6

\* What kfree makes of the heap when it frees a block.
LEMMA FreeHeap ==
  ASSUME IndInv, NEW p \in Freeable, kfree(p), p # NULL, ~hdr[p - HDR].free
  PROVE  /\ HeapOK(hdr', blockListStart, blockListEnd', HeapPages, extents, live')
         /\ live' = [q \in DOMAIN live \ {p} |-> live[q]] /\ filled' = <<p, hdr[p - HDR].size>>
         /\ DOMAIN hdr' = DOMAIN hdr
         /\ \A x \in DOMAIN hdr : x # p - HDR /\ ~hdr[x].free => hdr'[x].size = hdr[x].size
<1> DEFINE b  == p - HDR
           h1 == [hdr EXCEPT ![b].free = TRUE]
           n  == h1[b].next
           withNext == n # NULL /\ h1[n].free /\ Touching(h1, b, n)
           h2 == IF withNext THEN Absorb(h1, b, n) ELSE h1
           e2 == IF withNext /\ n = blockListEnd THEN b ELSE blockListEnd
           v  == h2[b].prev
           withPrev == v # NULL /\ h2[v].free /\ Touching(h2, v, b)
           h3 == IF withPrev THEN Absorb(h2, v, b) ELSE h2
           e3 == IF withPrev /\ b = e2 THEN v ELSE e2
           s == blockListStart
<1>1. /\ hdr' = h3 /\ blockListEnd' = e3
      /\ live' = [q \in DOMAIN live \ {p} |-> live[q]] /\ filled' = <<p, hdr[b].size>>
      /\ pc = "idle"
  BY DEF kfree
<1>2. /\ HeapOK(hdr, s, blockListEnd, HeapPages, extents, live)
      /\ b \in ListIn(hdr, s) /\ b \in DOMAIN hdr /\ b + HDR = p
  BY <1>1, FreedBlock
<1>3. DOMAIN live \subseteq Addresses
  BY DEF IndInv, TypeOK
<1>4. GivenBack(live, live', b + HDR)
  BY <1>1, <1>2 DEF GivenBack
<1>5. Marked(hdr, h1, b, TRUE)
  BY DEF Marked
<1> HIDE DEF b, h1
<1>6. ~hdr[b].free
  BY DEF b
<1>7. Unused(hdr, h1, s, blockListEnd, HeapPages, extents, live', b)
  BY <1>2, <1>3, <1>4, <1>5, <1>6, UnuseOK
<1>8. /\ HeapBut(h1, s, blockListEnd, HeapPages, extents, live', b, b)
      /\ b \in ListIn(h1, s) /\ h1[b].free /\ DOMAIN h1 = DOMAIN hdr
      /\ \A x \in DOMAIN hdr : h1[x].size = hdr[x].size /\ (x # b => h1[x].free = hdr[x].free)
  BY <1>2, <1>7 DEF Unused
<1>9. /\ HeapBut(h2, s, e2, HeapPages, extents, live', NULL, b)
      /\ b \in ListIn(h2, s) /\ h2[b].free
      /\ KeepsUsed(h1, h2)
  BY <1>8, NextMerge
<1> HIDE DEF h2, e2
<1>10. HeapOK(h3, s, e3, HeapPages, extents, live') /\ KeepsUsed(h2, h3)
  BY <1>9, PrevMerge
<1> HIDE DEF h3, e3
<1>11. /\ DOMAIN h3 = DOMAIN hdr
       /\ \A x \in DOMAIN hdr : x # b /\ ~hdr[x].free => h3[x].size = hdr[x].size
  BY <1>8, <1>9, <1>10 DEF KeepsUsed
<1> QED  BY <1>1, <1>10, <1>11 DEF b

LEMMA FreeStep ==
  ASSUME IndInv, NEW p \in Freeable, kfree(p) PROVE IndInv'
<1>1. /\ pc = "idle"
      /\ UNCHANGED <<usable, phase, avail, owned, others, blockListStart, kheapSize,
                     kheapSizeUsable, extents, pc, bh, request, size, zeroing, depth>>
  BY DEF kfree, pageVars, callVars
<1>2. CASE p = NULL \/ hdr[p - HDR].free
  <2>1. filled' = NoFill /\ UNCHANGED <<hdr, blockListEnd, live>>
    BY <1>2 DEF kfree
  <2>2. UNCHANGED <<listVars, pc, callVars, live>> /\ UNCHANGED <<usable, phase>>
    BY <1>1, <2>1 DEF listVars, callVars
  <2>3. /\ avail' \subseteq Pages /\ owned' \subseteq Pages /\ avail' \cap owned' = {}
        /\ others' \subseteq owned' /\ owned' \ others' = owned \ others
    BY <1>1 DEF IndInv, PagesInv
  <2> QED  BY <1>1, <2>1, <2>2, <2>3, OtherStep
<1>3. CASE p # NULL /\ ~hdr[p - HDR].free
  <2>1. /\ HeapOK(hdr', blockListStart, blockListEnd', HeapPages, extents, live')
        /\ live' = [q \in DOMAIN live \ {p} |-> live[q]] /\ filled' = <<p, hdr[p - HDR].size>>
    BY <1>3, FreeHeap
  <2>2. p \in Addresses /\ hdr[p - HDR].size \in Nat
    BY <1>1, <1>3, FreedBlock
  <2>3. HeapPages' = HeapPages /\ PagesInv'
    BY <1>1 DEF IndInv, PagesInv, HeapPages
  <2>4. HeapInv'
    <3>1. HeapOK(hdr, blockListStart, blockListEnd, HeapPages, extents, live)'
      BY <1>1, <2>1, <2>3
    <3>2. IsFiniteSet(HeapPages) /\ kheapSize = Cardinality(HeapPages) * PAGE_SIZE
      BY <1>1 DEF IndInv, HeapInv
    <3> QED  BY <1>1, <2>3, <3>1, <3>2 DEF HeapInv
  <2>5. TypeOK'
    <3>1. Headers(hdr') /\ LinkedIn(hdr', blockListStart, blockListEnd')
      BY <2>1 DEF HeapOK
    <3>2. DOMAIN hdr' \subseteq Addresses /\ \A a \in DOMAIN hdr' : hdr'[a] \in HeaderType
      BY <3>1 DEF Headers
    <3>3. blockListEnd' \in Addresses
      BY <3>1, <3>2, ListFacts DEF LinkedIn
    <3>4. filled' \in Addresses \X Nat
      BY <2>1, <2>2
    <3>5. DOMAIN live' \subseteq Addresses /\ \A q \in DOMAIN live' : live'[q] \in Addresses
      BY <2>1 DEF IndInv, TypeOK
    <3> QED  BY <1>1, <3>2, <3>3, <3>4, <3>5 DEF IndInv, TypeOK, HeaderType
  <2>6. BootInv' /\ WalkInv'
    BY <1>1 DEF IndInv, BootInv, WalkInv
  <2> QED  BY <2>3, <2>4, <2>5, <2>6 DEF IndInv
<1> QED  BY <1>2, <1>3

LEMMA NextInv == NoOverflow /\ IndInv /\ [Next]_vars => IndInv'
<1> SUFFICES ASSUME NoOverflow, IndInv, [Next]_vars PROVE IndInv'
  OBVIOUS
<1>0. phase \in {"run", "halt"}
  BY DEF IndInv, TypeOK
<1>1. CASE kheap_init
  BY <1>1, InitStep
<1>2. CASE kheap_init_panic
  BY <1>2, HaltStep DEF kheap_init_panic, PMM!AllocPanic
<1>3. CASE \E n \in Sizes, z \in BOOLEAN : kmalloc(n, z)
  BY <1>3, kmallocStep
<1>4. CASE Step
  <2>1. CASE kheap_extend_panic
    BY <2>1, HaltStep DEF kheap_extend_panic, PMM!AllocPanic
  <2> QED  BY <1>4, <2>1, WalkOnStep, TakeWholeStep, TakeSplitStep, ExtendStep, ClearStep DEF Step
<1>5. CASE \E p \in Freeable : kfree(p)
  BY <1>5, FreeStep
<1>6. CASE \E n \in OtherRequests : OtherAlloc(n)
  BY <1>6, OtherAllocStep
<1>7. CASE \E b, c \in others : OtherFree(b, c - b + 1)
  BY <1>7, OtherFreeStep
<1>8. CASE UNCHANGED vars
  BY <1>0, <1>8, HaltStep DEF vars, pageVars
<1>9. CASE Halted
  BY <1>8, <1>9 DEF Halted
<1> QED  BY <1>1, <1>2, <1>3, <1>4, <1>5, <1>6, <1>7, <1>8, <1>9 DEF Next

LEMMA Invariance == NoOverflow => (Spec => []IndInv)
<1>1. NoOverflow => (IndInv /\ [Next]_vars => IndInv')
  BY NextInv
<1> SUFFICES ASSUME NoOverflow PROVE Spec => []IndInv
  OBVIOUS
<1>2. IndInv /\ [Next]_vars => IndInv'
  BY <1>1
<1> QED  BY <1>2, InitInv, PTL DEF Spec

-----------------------------------------------------------------------------
(***************************************************************************)
(* The invariants that follow.                                             *)
(***************************************************************************)
LEMMA ListSame == List = ListIn(hdr, blockListStart)
BY DEF List, ListIn, Closed, ClosedIn

\* Every value that kheap.c computes keeps its type: addresses and sizes stay
\* in a size_t.
THEOREM HeapTypes == NoOverflow => (Spec => []TypeOK)
<1>1. IndInv => TypeOK
  BY DEF IndInv
<1> QED  BY <1>1, Invariance, PTL

\* Splits, merges and extensions leave one doubly linked list from
\* blockListStart to blockListEnd.
THEOREM HeapListLinked == NoOverflow => (Spec => []ListLinked)
<1>1. ASSUME IndInv, pc # "boot" PROVE ListLinked
  <2>1. LinkedIn(hdr, blockListStart, blockListEnd)
    BY <1>1 DEF IndInv, HeapInv, HeapOK
  <2> QED  BY <1>1, <2>1, ListSame DEF LinkedIn, ListLinked
<1>2. IndInv => ListLinked
  BY <1>1 DEF ListLinked
<1> QED  BY <1>2, Invariance, PTL

\* The blocks of the list tile the pages the heap owns: no byte is lost, none
\* is in two blocks.
THEOREM HeapTiled == NoOverflow => (Spec => []BlocksTileHeap)
<1>1. ASSUME IndInv, pc # "boot" PROVE BlocksTileHeap
  <2> DEFINE L == ListIn(hdr, blockListStart)
  <2>1. HeapOK(hdr, blockListStart, blockListEnd, HeapPages, extents, live)
        /\ kheapSize = Cardinality(HeapPages) * PAGE_SIZE
    BY <1>1 DEF IndInv, HeapInv
  <2>2. /\ \A b, c \in L : b # c => EndIn(hdr, b) <= c \/ EndIn(hdr, c) <= b
        /\ \A b \in L : \A x \in b .. (EndIn(hdr, b) - 1) : InPages(x, HeapPages)
        /\ \A x \in Nat : InPages(x, HeapPages) => \E b \in L : b <= x /\ x < EndIn(hdr, b)
    BY <2>1 DEF HeapOK, TiledIn
  <2>3. \A b \in L : /\ b \in Nat /\ hdr[b].size \in Nat /\ EndIn(hdr, b) = b + (HDR + hdr[b].size)
                     /\ EndIn(hdr, b) = End(b) /\ HDR + hdr[b].size \in Nat
    BY <2>1, BlockFacts, PageSize DEF End
  <2>4. ASSUME NEW b \in L, NEW c \in L, b # c
        PROVE  Disjoint(b, HDR + hdr[b].size, c, HDR + hdr[c].size)
    BY <2>2, <2>3, <2>4 DEF Disjoint
  <2>5. ASSUME NEW b \in L PROVE PagesOf(b, HDR + hdr[b].size) \subseteq HeapPages
    <3>1. \A x \in b .. (b + (HDR + hdr[b].size) - 1) : InPages(x, HeapPages)
      BY <2>2, <2>3
    <3> QED  BY <2>3, <3>1, PagesOfBytes
  <2>6. ASSUME NEW p \in HeapPages,
               NEW a \in (p * PAGE_SIZE) .. (p * PAGE_SIZE + PAGE_SIZE - 1)
        PROVE  \E b \in L : b <= a /\ a < End(b)
    <3>1. p \in Nat
      BY <1>1, KHeapAssumption DEF IndInv, PagesInv, HeapPages
    <3>2. a - p * PAGE_SIZE \in 0 .. (PAGE_SIZE - 1) /\ a = PAGE_SIZE * p + (a - p * PAGE_SIZE)
          /\ a \in Nat
      <4>1. p * PAGE_SIZE \in Nat /\ PAGE_SIZE * p = p * PAGE_SIZE
        BY <3>1, PageSize
      <4> QED  BY <4>1, PageSize
    <3>3. a \div PAGE_SIZE = p
      BY <3>1, <3>2, PageSize, DivExact
    <3>4. InPages(a, HeapPages)
      BY <3>3 DEF InPages
    <3> QED  BY <2>2, <2>3, <3>2, <3>4
  <2> HIDE DEF L
  <2>7. List = L
    BY ListSame DEF L
  <2> QED  BY <2>1, <2>4, <2>5, <2>6, <2>7 DEF BlocksTileHeap
<1>2. IndInv => BlocksTileHeap
  BY <1>1 DEF BlocksTileHeap
<1> QED  BY <1>2, Invariance, PTL

\* kfree can tell a block that is held from one that was freed before.
THEOREM UsedIsHeld == NoOverflow => (Spec => []UsedMeansHeld)
<1>1. ASSUME IndInv PROVE UsedMeansHeld
  <2>1. CASE pc = "boot"
    BY <1>1, <2>1 DEF IndInv, BootInv, UsedMeansHeld
  <2>2. CASE pc # "boot"
    <3>1. HeapOK(hdr, blockListStart, blockListEnd, HeapPages, extents, live)
      BY <1>1, <2>2 DEF IndInv, HeapInv
    <3>2. /\ \A b \in ListIn(hdr, blockListStart) : ~hdr[b].free => b + HDR \in DOMAIN live
          /\ \A p \in DOMAIN live : p - HDR \in ListIn(hdr, blockListStart) /\ ~hdr[p - HDR].free
          /\ \A a \in DOMAIN hdr : a \notin ListIn(hdr, blockListStart) => hdr[a].free
      BY <3>1 DEF HeapOK, HeldIn, StaleIn
    <3>3. ASSUME NEW a \in DOMAIN hdr PROVE hdr[a].free <=> a + HDR \notin DOMAIN live
      <4>1. a \in Nat /\ HDR \in Nat
        BY <3>1, BlockFacts, PageSize
      <4>2. (a + HDR) - HDR = a
        BY <4>1
      <4>3. a + HDR \in DOMAIN live => ~hdr[a].free
        BY <3>2, <4>2
      <4> QED  BY <3>2, <4>3
    <3> QED  BY <3>2, <3>3, ListSame DEF UsedMeansHeld
  <2> QED  BY <2>1, <2>2
<1>2. IndInv => UsedMeansHeld
  BY <1>1
<1> QED  BY <1>2, Invariance, PTL

\* kfree leaves no two free neighbours behind.
THEOREM HeapCoalesced == NoOverflow => (Spec => []Coalesced)
<1>1. ASSUME IndInv PROVE Coalesced
  <2>1. CASE pc = "boot"
    <3>1. DOMAIN hdr = {}
      BY <1>1, <2>1 DEF IndInv, BootInv
    <3>2. List = {}
      BY <3>1 DEF List
    <3> QED  BY <3>2 DEF Coalesced
  <2>2. CASE pc # "boot"
    <3>1. CoalescedIn(hdr, blockListStart, extents)
      BY <1>1, <2>2 DEF IndInv, HeapInv, HeapOK
    <3> QED  BY <3>1, ListSame DEF CoalescedIn, Coalesced, EndIn, End
  <2> QED  BY <2>1, <2>2
<1>2. IndInv => Coalesced
  BY <1>1
<1> QED  BY <1>2, Invariance, PTL

\* kmalloc extends the heap at most once per call.
THEOREM ExtendsOnce == NoOverflow => (Spec => []RecursesOnce)
<1>1. ASSUME IndInv PROVE RecursesOnce
  <2>1. depth \in {0, 1}
    BY <1>1 DEF IndInv, TypeOK, BootInv, WalkInv
  <2> QED  BY <2>1 DEF RecursesOnce
<1>2. IndInv => RecursesOnce
  BY <1>1
<1> QED  BY <1>2, Invariance, PTL

-----------------------------------------------------------------------------
(***************************************************************************)
(* What the heap writes.                                                   *)
(***************************************************************************)
\* Bytes of one block: in the pages P, and apart from what others hold.
FilledIn(a, n, P, l, b) ==
  /\ PagesOf(a, n) \subseteq P
  /\ \A p \in DOMAIN l : p - HDR # b => Disjoint(a, n, p, l[p])

LEMMA FillInBlock ==
  ASSUME NEW h, NEW s, NEW e, NEW P, NEW X, NEW l, HeapOK(h, s, e, P, X, l),
         DOMAIN l \subseteq Addresses, \A p \in DOMAIN l : l[p] \in Addresses,
         NEW b \in ListIn(h, s), NEW a \in Nat, NEW n \in Nat, b <= a, a + n <= EndIn(h, b)
  PROVE  FilledIn(a, n, P, l, b)
<1>1. /\ \A c, d \in ListIn(h, s) : c # d => EndIn(h, c) <= d \/ EndIn(h, d) <= c
      /\ \A c \in ListIn(h, s) : \A x \in c .. (EndIn(h, c) - 1) : InPages(x, P)
      /\ \A p \in DOMAIN l : p - HDR \in ListIn(h, s) /\ l[p] <= h[p - HDR].size
  BY DEF HeapOK, TiledIn, HeldIn
<1>2. b \in Nat /\ EndIn(h, b) \in Nat
  BY BlockFacts
<1>3. PagesOf(a, n) \subseteq P
  <2>1. \A x \in a .. (a + n - 1) : InPages(x, P)
    BY <1>1, <1>2
  <2> QED  BY <2>1, PagesOfBytes
<1>4. ASSUME NEW p \in DOMAIN l, p - HDR # b PROVE Disjoint(a, n, p, l[p])
  <2> DEFINE c == p - HDR
  <2>1. c \in ListIn(h, s) /\ l[p] <= h[c].size
    BY <1>1
  <2>2. c \in Nat /\ h[c].size \in Nat /\ EndIn(h, c) = c + HDR + h[c].size
    BY <2>1, BlockFacts
  <2>3. p \in Nat /\ l[p] \in Nat /\ HDR \in Nat
    BY PageSize DEF Addresses
  <2>4. EndIn(h, b) <= c \/ EndIn(h, c) <= b
    BY <1>1, <1>4, <2>1
  <2>5. p = c + HDR
    BY <2>3
  <2> HIDE DEF c
  <2>6. a + n <= p \/ p + l[p] <= a
    BY <1>2, <2>1, <2>2, <2>3, <2>4, <2>5
  <2> QED  BY <2>6 DEF Disjoint
<1> QED  BY <1>3, <1>4 DEF FilledIn

LEMMA FillNext ==
  ASSUME NoOverflow, IndInv, IndInv', Next, ~UNCHANGED vars PROVE FillStaysHome
<1> SUFFICES ASSUME filled' # NoFill
             PROVE  /\ PagesOf(filled'[1], filled'[2]) \subseteq HeapPages'
                    /\ \A p \in DOMAIN live \cap DOMAIN live' :
                         \/ pc = "zero" /\ p = bh + HDR
                         \/ Disjoint(filled'[1], filled'[2], p, live[p])
  BY DEF FillStaysHome
<1>0. DOMAIN live \subseteq Addresses /\ \A p \in DOMAIN live : live[p] \in Addresses
  BY DEF IndInv, TypeOK
<1>1. CASE kheap_init
  <2>1. DOMAIN live = {} /\ pc' # "boot"
    BY <1>1 DEF kheap_init, IndInv, BootInv
  <2>2. filled' = <<blockListStart', HDR>>
    BY <1>1 DEF kheap_init
  <2> DEFINE s == blockListStart'
  <2>3. HeapOK(hdr', s, blockListEnd', HeapPages', extents', live')
    BY <2>1 DEF IndInv, HeapInv
  <2>4. DOMAIN live' \subseteq Addresses /\ \A p \in DOMAIN live' : live'[p] \in Addresses
    BY DEF IndInv, TypeOK
  <2>5. s \in ListIn(hdr', s)
    BY <2>3 DEF HeapOK, LinkedIn
  <2>6. s \in Nat /\ s + HDR <= EndIn(hdr', s)
    BY <2>3, <2>5, BlockFacts
  <2> HIDE DEF s
  <2>7. FilledIn(s, HDR, HeapPages', live', s)
    BY <2>3, <2>4, <2>5, <2>6, PageSize, FillInBlock
  <2> QED  BY <2>1, <2>2, <2>7 DEF FilledIn, s
<1>2. CASE TakeSplit
  <2>1. /\ HeapOK(hdr, blockListStart, blockListEnd, HeapPages, extents, live)
        /\ bh \in ListIn(hdr, blockListStart) /\ bh \in Nat /\ size \in Nat /\ hdr[bh].size \in Nat
        /\ hdr[bh].free
    BY <1>2, TakenBlock DEF TakeSplit
  <2>2. filled' = <<bh + HDR + size, HDR>> /\ size + HDR < hdr[bh].size
    BY <1>2, TakeSplitHeap
  <2>3. HeapPages' = HeapPages
    BY <1>2 DEF TakeSplit, HeapPages, pageVars
  <2> DEFINE a == bh + HDR + size
  <2>4. a \in Nat /\ bh <= a /\ a + HDR <= EndIn(hdr, bh)
    BY <2>1, <2>2, PageSize DEF EndIn
  <2> HIDE DEF a
  <2>5. FilledIn(a, HDR, HeapPages, live, bh)
    BY <1>0, <2>1, <2>4, PageSize, FillInBlock
  <2>6. \A p \in DOMAIN live : p - HDR # bh
    BY <2>1 DEF HeapOK, HeldIn
  <2>7. filled' = <<a, HDR>>
    BY <2>2 DEF a
  <2> QED  BY <2>3, <2>5, <2>6, <2>7 DEF FilledIn
<1>3. CASE kheap_extend
  <2> DEFINE e == blockListEnd'
  <2>1. /\ HeapOK(hdr', blockListStart', e, HeapPages', extents', live')
        /\ DOMAIN live' \subseteq Addresses /\ \A p \in DOMAIN live' : live'[p] \in Addresses
    BY <1>3 DEF kheap_extend, IndInv, HeapInv, TypeOK
  <2>2. PICK b \in avail :
          LET newbh == b * PAGE_SIZE
              bytes == ExtentBytes(size)
          IN
          /\ hdr' = [a \in DOMAIN hdr \cup {newbh} |->
                       CASE a = newbh -> Header(bytes - HDR, NULL, blockListEnd)
                         [] a = blockListEnd -> [hdr[a] EXCEPT !.next = newbh]
                         [] OTHER -> hdr[a]]
          /\ blockListEnd' = newbh
          /\ filled' = <<newbh, bytes>>
    BY <1>3 DEF kheap_extend
  <2> DEFINE bytes == ExtentBytes(size)
  <2>3. filled' = <<e, bytes>>
    BY <2>2
  <2>4. bytes \in Nat /\ HDR <= bytes
    <3>1. request \in Sizes /\ size = Rounded(request)
      BY <1>3 DEF kheap_extend, IndInv, WalkInv
    <3>2. /\ PageCount(bytes) \in Nat /\ bytes = PageCount(bytes) * PAGE_SIZE
          /\ size \in Nat /\ size + HDR <= bytes
      BY <3>1, ExtentFacts
    <3>3. bytes \in Nat
      BY <3>2, PageSize
    <3> QED  BY <3>2, <3>3, PageSize
  <2>5. hdr'[e] = Header(bytes - HDR, NULL, blockListEnd)
    <3>1. e = b * PAGE_SIZE
      BY <2>2
    <3> HIDE DEF bytes
    <3>2. hdr' = [a \in DOMAIN hdr \cup {e} |->
                    CASE a = e -> Header(bytes - HDR, NULL, blockListEnd)
                      [] a = blockListEnd -> [hdr[a] EXCEPT !.next = e]
                      [] OTHER -> hdr[a]]
      BY <2>2, <3>1 DEF bytes
    <3>3. e # blockListEnd
      <4>1. /\ HeapOK(hdr, blockListStart, blockListEnd, HeapPages, extents, live)
        BY <1>3 DEF kheap_extend, IndInv, HeapInv
      <4>2. blockListEnd \in DOMAIN hdr /\ InPages(blockListEnd, HeapPages)
        BY <4>1, BlockFacts DEF HeapOK, LinkedIn, StaleIn
      <4>3. b \notin HeapPages
        BY DEF IndInv, PagesInv, HeapPages
      <4>4. e \div PAGE_SIZE = b
        <5>1. b \in Nat
          BY KHeapAssumption DEF IndInv, PagesInv
        <5>2. b * PAGE_SIZE = PAGE_SIZE * b + 0 /\ 0 \in 0 .. (PAGE_SIZE - 1)
          BY <5>1, PageSize
        <5> QED  BY <3>1, <5>1, <5>2, PageSize, DivExact
      <4> QED  BY <4>2, <4>3, <4>4 DEF InPages
    <3> HIDE DEF e
    <3> QED  BY <3>2, <3>3
  <2>6. hdr'[e].size = bytes - HDR /\ hdr'[e].free
    BY <2>5 DEF Header
  <2> HIDE DEF bytes
  <2>7. e \in ListIn(hdr', blockListStart')
    BY <2>1 DEF HeapOK, LinkedIn
  <2>8. e \in Nat /\ EndIn(hdr', e) = e + HDR + hdr'[e].size
    BY <2>1, <2>7, BlockFacts
  <2>9. e + bytes <= EndIn(hdr', e)
    BY <2>4, <2>6, <2>8, PageSize
  <2> HIDE DEF e
  <2>10. FilledIn(e, bytes, HeapPages', live', e)
    BY <2>1, <2>4, <2>7, <2>8, <2>9, FillInBlock
  <2>11. \A p \in DOMAIN live' : p - HDR # e
    BY <2>1, <2>6 DEF HeapOK, HeldIn
  <2>12. live' = live
    BY <1>3 DEF kheap_extend
  <2> QED  BY <2>3, <2>10, <2>11, <2>12 DEF FilledIn
<1>4. CASE kzalloc_clear
  <2>1. HeapOK(hdr, blockListStart, blockListEnd, HeapPages, extents, live)
    BY <1>4 DEF kzalloc_clear, IndInv, HeapInv
  <2>2. /\ pc = "zero" /\ filled' = <<bh + HDR, request>> /\ live' = live
        /\ bh \in ListIn(hdr, blockListStart) /\ bh + HDR \in DOMAIN live /\ live[bh + HDR] = request
    BY <1>4 DEF kzalloc_clear, IndInv, WalkInv
  <2>3. HeapPages' = HeapPages
    BY <1>4 DEF kzalloc_clear, HeapPages, pageVars
  <2>4. bh \in Nat /\ hdr[bh].size \in Nat /\ EndIn(hdr, bh) = bh + HDR + hdr[bh].size
    BY <2>1, <2>2, BlockFacts
  <2>5. request \in Nat
    BY DEF IndInv, TypeOK, Addresses
  <2>6. request <= hdr[bh].size
    <3>1. (bh + HDR) - HDR = bh
      BY <2>4, PageSize
    <3> QED  BY <2>1, <2>2, <3>1 DEF HeapOK, HeldIn
  <2> DEFINE a == bh + HDR
  <2>7. a \in Nat /\ bh <= a /\ a + request <= EndIn(hdr, bh)
    BY <2>4, <2>5, <2>6, PageSize
  <2>8. \A p \in DOMAIN live : p - HDR = bh => p = a
    BY <1>0, <2>4, PageSize DEF Addresses
  <2>9. filled' = <<a, request>> /\ a = bh + HDR
    BY <2>2
  <2> HIDE DEF a
  <2>10. FilledIn(a, request, HeapPages, live, bh)
    BY <1>0, <2>1, <2>2, <2>5, <2>7, FillInBlock
  <2> QED  BY <2>2, <2>3, <2>8, <2>9, <2>10 DEF FilledIn
<1>5. CASE \E p \in Freeable : kfree(p)
  <2>1. PICK p \in Freeable : kfree(p)
    BY <1>5
  <2>2. p # NULL /\ ~hdr[p - HDR].free /\ pc = "idle"
    BY <2>1 DEF kfree
  <2>3. /\ HeapOK(hdr, blockListStart, blockListEnd, HeapPages, extents, live)
        /\ p - HDR \in ListIn(hdr, blockListStart) /\ p - HDR + HDR = p /\ p \in Addresses
        /\ hdr[p - HDR].size \in Nat
    BY <2>2, FreedBlock
  <2>4. filled' = <<p, hdr[p - HDR].size>> /\ live' = [q \in DOMAIN live \ {p} |-> live[q]]
    BY <2>1, <2>2, FreeHeap
  <2>5. HeapPages' = HeapPages
    BY <2>1 DEF kfree, HeapPages, pageVars
  <2> DEFINE b == p - HDR
  <2>6. b \in Nat /\ EndIn(hdr, b) = b + HDR + hdr[b].size
    BY <2>3, BlockFacts
  <2>7. p \in Nat /\ b <= p /\ p + hdr[b].size <= EndIn(hdr, b)
    BY <2>3, <2>6, PageSize DEF Addresses
  <2>8. \A q \in DOMAIN live : q - HDR = b => q = p
    BY <1>0, <2>7, PageSize DEF Addresses
  <2>9. filled' = <<p, hdr[b].size>> /\ b \in ListIn(hdr, blockListStart) /\ hdr[b].size \in Nat
    BY <2>3, <2>4
  <2> HIDE DEF b
  <2>10. FilledIn(p, hdr[b].size, HeapPages, live, b)
    BY <1>0, <2>3, <2>7, <2>9, FillInBlock
  <2> QED  BY <2>4, <2>5, <2>8, <2>9, <2>10 DEF FilledIn
<1>6. CASE WalkOn \/ TakeWhole \/ kheap_extend_panic \/ kheap_init_panic
           \/ \E n \in Sizes, z \in BOOLEAN : kmalloc(n, z)
  BY <1>6 DEF WalkOn, TakeWhole, kheap_extend_panic, kheap_init_panic, kmalloc
<1>7. CASE (\E n \in OtherRequests : OtherAlloc(n)) \/ \E b, c \in others : OtherFree(b, c - b + 1)
  BY <1>7 DEF OtherAlloc, OtherFree
<1>8. CASE Halted
  BY <1>8 DEF Halted
<1> QED  BY <1>1, <1>2, <1>3, <1>4, <1>5, <1>6, <1>7, <1>8 DEF Next, Step

\* No memset of kheap.c reaches a block somebody holds, or a page that is not
\* the heap's.
THEOREM HeapWritesStayHome == NoOverflow => (Spec => WritesStayHome)
<1> SUFFICES ASSUME NoOverflow PROVE Spec => WritesStayHome
  OBVIOUS
<1>1. IndInv /\ IndInv' /\ [Next]_vars => [FillStaysHome]_vars
  BY FillNext
<1>2. Spec => []IndInv
  BY Invariance
<1> QED  BY <1>1, <1>2, PTL DEF Spec, WritesStayHome

-----------------------------------------------------------------------------
(***************************************************************************)
(* Holders of blocks see the abstract heap.                                *)
(***************************************************************************)
Chunks == [p \in DOMAIN live |-> hdr[p - HDR].size]

Asked == IF pc = "walk" THEN request ELSE -1

\* A step whose holders, blocks and running call stay as they are, and whose
\* pages grow or do not change.
LEMMA UnseenStep ==
  ASSUME DOMAIN live' = DOMAIN live, \A p \in DOMAIN live : hdr'[p - HDR].size = hdr[p - HDR].size,
         Asked' = Asked, HeapPages \subseteq HeapPages'
  PROVE  Promise!HeapNext
<1>1. Chunks' = Chunks
  BY DEF Chunks
<1>2. Promise!Grow
  BY <1>1 DEF Promise!Grow, Chunks, Asked
<1> QED  BY <1>2 DEF Promise!HeapNext

\* kmalloc hands out a block whose size becomes n.
LEMMA GiveStep ==
  ASSUME IndInv, pc = "walk", Return, HeapPages' = HeapPages,
         HeapOK(hdr, blockListStart, blockListEnd, HeapPages, extents, live),
         bh \in ListIn(hdr, blockListStart), hdr[bh].free, NEW n \in Nat, request \in Nat, request <= n,
         hdr'[bh].size = n, n <= hdr[bh].size,
         \A p \in DOMAIN live : hdr'[p - HDR].size = hdr[p - HDR].size
  PROVE  Promise!HeapNext
<1> DEFINE p == bh + HDR
           L == ListIn(hdr, blockListStart)
<1>1. /\ live' = [q \in DOMAIN live \cup {p} |-> IF q = p THEN request ELSE live[q]]
      /\ pc' # "walk"
  BY DEF Return
<1>2. /\ \A c, d \in L : c # d => EndIn(hdr, c) <= d \/ EndIn(hdr, d) <= c
      /\ \A c \in L : \A x \in c .. (EndIn(hdr, c) - 1) : InPages(x, HeapPages)
      /\ \A q \in DOMAIN live : q - HDR \in L /\ ~hdr[q - HDR].free
  BY DEF HeapOK, TiledIn, HeldIn
<1>3. bh \in Nat /\ hdr[bh].size \in Nat /\ EndIn(hdr, bh) = bh + HDR + hdr[bh].size /\ HDR \in Nat
  BY BlockFacts, PageSize
<1>4. p \in Nat /\ p - HDR = bh
  BY <1>3
<1>5. p \notin DOMAIN live
  BY <1>2, <1>4
<1>6. Chunks' = [q \in DOMAIN Chunks \cup {p} |-> IF q = p THEN n ELSE Chunks[q]]
  <2>1. DOMAIN Chunks = DOMAIN live /\ DOMAIN Chunks' = DOMAIN live \cup {p}
    BY <1>1 DEF Chunks
  <2>2. Chunks' = [q \in DOMAIN live \cup {p} |-> hdr'[q - HDR].size]
    BY <1>1 DEF Chunks
  <2> HIDE DEF p
  <2>3. ASSUME NEW q \in DOMAIN live \cup {p}
        PROVE  hdr'[q - HDR].size = IF q = p THEN n ELSE Chunks[q]
    <3>1. CASE q = p
      BY <1>4, <3>1
    <3>2. CASE q # p
      BY <3>2 DEF Chunks
    <3> QED  BY <3>1, <3>2
  <2> QED  BY <2>1, <2>2, <2>3
<1>7. ASSUME NEW q \in DOMAIN Chunks PROVE q + Chunks[q] <= p \/ p + n <= q
  <2> DEFINE c == q - HDR
  <2>1. q \in DOMAIN live /\ Chunks[q] = hdr[c].size
    BY DEF Chunks
  <2>2. c \in L /\ c # bh /\ q \in Nat
    BY <1>2, <2>1 DEF IndInv, TypeOK, Addresses
  <2>3. c \in Nat /\ hdr[c].size \in Nat /\ EndIn(hdr, c) = c + HDR + hdr[c].size
    BY <2>2, BlockFacts
  <2>4. EndIn(hdr, c) <= bh \/ EndIn(hdr, bh) <= c
    BY <1>2, <2>2
  <2>5. q = c + HDR
    BY <1>3, <2>2
  <2> HIDE DEF c
  <2> QED  BY <1>3, <2>1, <2>3, <2>4, <2>5
<1>8. {a \div PAGE_SIZE : a \in Promise!Bytes(p, n)} \subseteq HeapPages
  <2>1. ASSUME NEW a \in Promise!Bytes(p, n) PROVE a \div PAGE_SIZE \in HeapPages
    <3>1. a \in bh .. (EndIn(hdr, bh) - 1)
      BY <1>3, <1>4 DEF Promise!Bytes
    <3> QED  BY <1>2, <3>1 DEF InPages
  <2> QED  BY <2>1
<1>9. Asked = request /\ Asked' = -1 /\ Asked # -1
  BY <1>1 DEF Asked
<1> HIDE DEF p
<1>10. Chunks'[p] = n /\ p \in DOMAIN Chunks' \ DOMAIN Chunks
  BY <1>5, <1>6 DEF Chunks
<1> DEFINE Body(q, m) ==
             /\ Asked # -1 /\ m >= Asked
             /\ q \notin DOMAIN Chunks
             /\ \A r \in DOMAIN Chunks : r + Chunks[r] <= q \/ q + m <= r
             /\ {a \div PAGE_SIZE : a \in Promise!Bytes(q, m)} \subseteq HeapPages
             /\ Chunks' = [r \in DOMAIN Chunks \cup {q} |-> IF r = q THEN m ELSE Chunks[r]]
             /\ Asked' = -1
             /\ HeapPages' = HeapPages
<1>11. Body(p, n)
  <2>1. p \notin DOMAIN Chunks
    BY <1>5 DEF Chunks
  <2> QED  BY <1>6, <1>7, <1>8, <1>9, <2>1
<1>12. Body(p, Chunks'[p])
  BY <1>10, <1>11
<1> HIDE DEF Body
<1>13. \E q \in DOMAIN Chunks' \ DOMAIN Chunks : Body(q, Chunks'[q])
  BY <1>10, <1>12
<1> QED  BY <1>13 DEF Body, Promise!HeapNext, Promise!Give, Promise!NoSize, Chunks, Asked

LEMMA InitPromise == Init => Promise!HeapInit
<1> SUFFICES ASSUME Init PROVE Promise!HeapInit
  OBVIOUS
<1>1. DOMAIN live = {} /\ HeapPages = {} /\ pc = "boot"
  BY DEF Init, HeapPages
<1>2. [p \in DOMAIN live |-> hdr[p - HDR].size] = [p \in {} |-> 0]
  BY <1>1
<1> QED  BY <1>1, <1>2 DEF Promise!HeapInit, Promise!NoSize

\* A step that leaves pages, headers and holders alone.
LEMMA KeptStep ==
  ASSUME UNCHANGED <<hdr, live>>, Asked' = Asked, HeapPages' = HeapPages
  PROVE  Promise!HeapNext
BY UnseenStep

LEMMA FreePromise ==
  ASSUME IndInv, NEW p \in Freeable, kfree(p) PROVE Promise!HeapNext
<1>1. pc = "idle" /\ pc' = "idle" /\ UNCHANGED <<owned, others>>
  BY DEF kfree, pageVars
<1>2. HeapPages' = HeapPages /\ Asked = -1 /\ Asked' = -1
  BY <1>1 DEF HeapPages, Asked
<1>3. CASE p = NULL \/ hdr[p - HDR].free
  BY <1>2, <1>3, KeptStep DEF kfree
<1>4. CASE p # NULL /\ ~hdr[p - HDR].free
  <2>1. /\ live' = [q \in DOMAIN live \ {p} |-> live[q]]
        /\ \A x \in DOMAIN hdr : x # p - HDR /\ ~hdr[x].free => hdr'[x].size = hdr[x].size
    BY <1>4, FreeHeap
  <2>2. /\ HeapOK(hdr, blockListStart, blockListEnd, HeapPages, extents, live)
        /\ p \in DOMAIN live /\ p \in Addresses
    BY <1>1, <1>4, FreedBlock
  <2>3. ASSUME NEW q \in DOMAIN live \ {p} PROVE hdr'[q - HDR].size = hdr[q - HDR].size
    <3>1. q - HDR \in DOMAIN hdr /\ ~hdr[q - HDR].free
      BY <2>2, BlockFacts DEF HeapOK, HeldIn
    <3>2. q - HDR # p - HDR
      BY <2>2, PageSize DEF IndInv, TypeOK, Addresses
    <3> QED  BY <2>1, <3>1, <3>2
  <2>4. Chunks' = [q \in DOMAIN Chunks \ {p} |-> Chunks[q]] /\ p \in DOMAIN Chunks
    BY <2>1, <2>2, <2>3 DEF Chunks
  <2> DEFINE Back(r) == /\ Asked = -1 /\ Asked' = Asked /\ HeapPages' = HeapPages
                        /\ Chunks' = [q \in DOMAIN Chunks \ {r} |-> Chunks[q]]
  <2>5. Back(p)
    BY <1>2, <2>4
  <2> HIDE DEF Back
  <2>6. \E r \in DOMAIN Chunks : Back(r)
    BY <2>4, <2>5
  <2> QED  BY <2>6 DEF Back, Promise!HeapNext, Promise!Free, Promise!NoSize, Chunks, Asked
<1> QED  BY <1>3, <1>4

LEMMA NextPromise ==
  ASSUME NoOverflow, IndInv, IndInv', [Next]_vars
  PROVE  [Promise!HeapNext]_(Promise!heapVars)
<1>1. CASE kheap_init
  <2>1. DOMAIN live = {} /\ HeapPages = {} /\ pc = "boot" /\ pc' = "idle" /\ live' = live
    BY <1>1 DEF kheap_init, IndInv, BootInv
  <2> QED  BY <2>1, UnseenStep DEF Asked
<1>2. CASE \E n \in Sizes, z \in BOOLEAN : kmalloc(n, z)
  <2>1. PICK n \in Sizes, z \in BOOLEAN : kmalloc(n, z)
    BY <1>2
  <2>2. /\ pc = "idle" /\ pc' = "walk" /\ request' = n
        /\ UNCHANGED <<hdr, live>> /\ HeapPages' = HeapPages
    BY <2>1 DEF kmalloc, pageVars, listVars, HeapPages
  <2>3. n >= 0
    BY KHeapAssumption
  <2>4. Promise!Ask
    BY <2>2, <2>3 DEF Promise!Ask, Promise!NoSize
  <2> QED  BY <2>4 DEF Promise!HeapNext
<1>3. CASE TakeWhole
  <2>1. /\ HeapOK(hdr, blockListStart, blockListEnd, HeapPages, extents, live)
        /\ bh \in ListIn(hdr, blockListStart) /\ bh \in DOMAIN hdr /\ hdr[bh].free
        /\ hdr[bh].size \in Nat /\ size <= hdr[bh].size
        /\ request \in Nat /\ request <= size /\ size \in Nat
    BY <1>3, TakenBlock DEF TakeWhole
  <2>2. /\ HeapOK(hdr', blockListStart, blockListEnd', HeapPages, extents, live')
        /\ bh \in ListIn(hdr', blockListStart)
        /\ \A a \in DOMAIN hdr' : a \in DOMAIN hdr /\ hdr'[a].size = hdr[a].size
    BY <1>3, TakeWholeHeap
  <2>3. hdr'[bh].size = hdr[bh].size
    BY <2>2, BlockFacts
  <2>4. \A p \in DOMAIN live' : p - HDR \in DOMAIN hdr'
    BY <2>2, BlockFacts DEF HeapOK, HeldIn
  <2>5. \A p \in DOMAIN live : hdr'[p - HDR].size = hdr[p - HDR].size
    BY <1>3, <2>2, <2>4 DEF TakeWhole, Return
  <2>6. HeapPages' = HeapPages /\ pc = "walk" /\ Return
    BY <1>3 DEF TakeWhole, pageVars, HeapPages
  <2>7. request <= hdr[bh].size
    BY <2>1
  <2>8. Promise!HeapNext
    BY <2>1, <2>3, <2>5, <2>6, <2>7, GiveStep
  <2> QED  BY <2>8
<1>4. CASE TakeSplit
  <2>1. /\ HeapOK(hdr, blockListStart, blockListEnd, HeapPages, extents, live)
        /\ bh \in ListIn(hdr, blockListStart) /\ hdr[bh].free
        /\ hdr[bh].size \in Nat /\ size <= hdr[bh].size /\ bh \in Nat
        /\ request \in Nat /\ request <= size /\ size \in Nat
    BY <1>4, TakenBlock DEF TakeSplit
  <2>2. /\ HeapOK(hdr', blockListStart, blockListEnd', HeapPages, extents, live')
        /\ \A a \in DOMAIN hdr \cap DOMAIN hdr' :
             a # bh /\ a # bh + HDR + size => hdr'[a].size = hdr[a].size
        /\ hdr'[bh].size = size /\ size + HDR < hdr[bh].size
    BY <1>4, TakeSplitHeap
  <2>3. \A p \in DOMAIN live' : p - HDR \in DOMAIN hdr'
    BY <2>2, BlockFacts DEF HeapOK, HeldIn
  <2>4. ASSUME NEW p \in DOMAIN live PROVE hdr'[p - HDR].size = hdr[p - HDR].size
    <3>1. p - HDR \in ListIn(hdr, blockListStart) /\ ~hdr[p - HDR].free /\ p - HDR \in DOMAIN hdr
      BY <2>1, BlockFacts DEF HeapOK, HeldIn
    <3>2. p - HDR \in DOMAIN hdr'
      BY <1>4, <2>3 DEF TakeSplit, Return
    <3>3. bh + HDR + size \notin ListIn(hdr, blockListStart)
      <4>1. /\ bh + HDR + size \in Nat /\ bh < bh + HDR + size
            /\ bh + HDR + size < EndIn(hdr, bh)
        BY <2>1, <2>2, PageSize DEF EndIn
      <4> QED  BY <2>1, <4>1, NoneInside
    <3> QED  BY <2>1, <2>2, <3>1, <3>2, <3>3
  <2>5. HeapPages' = HeapPages /\ pc = "walk" /\ Return
    BY <1>4 DEF TakeSplit, pageVars, HeapPages
  <2>6. Promise!HeapNext
    BY <2>1, <2>2, <2>4, <2>5, GiveStep
  <2> QED  BY <2>6
<1>5. CASE kheap_extend
  <2>1. /\ pc = "walk" /\ pc' = pc /\ request' = request /\ live' = live /\ others' = others
        /\ HeapOK(hdr, blockListStart, blockListEnd, HeapPages, extents, live)
    BY <1>5 DEF kheap_extend, IndInv, HeapInv
  <2>2. PICK b \in avail :
          LET newbh == b * PAGE_SIZE
              bytes == ExtentBytes(size)
          IN
          /\ PMM!Alloc(b, PageCount(bytes))
          /\ hdr' = [a \in DOMAIN hdr \cup {newbh} |->
                       CASE a = newbh -> Header(bytes - HDR, NULL, blockListEnd)
                         [] a = blockListEnd -> [hdr[a] EXCEPT !.next = newbh]
                         [] OTHER -> hdr[a]]
    BY <1>5 DEF kheap_extend
  <2> DEFINE new == b * PAGE_SIZE
  <2>3. HeapPages \subseteq HeapPages'
    BY <2>1, <2>2 DEF PMM!Alloc, HeapPages
  <2>4. new \notin DOMAIN hdr
    <3>1. \A a \in DOMAIN hdr : InPages(a, HeapPages)
      BY <2>1 DEF HeapOK, StaleIn
    <3>2. b \notin HeapPages /\ b \in Nat
      BY KHeapAssumption DEF IndInv, PagesInv, HeapPages
    <3>3. b * PAGE_SIZE = PAGE_SIZE * b + 0 /\ 0 \in 0 .. (PAGE_SIZE - 1)
      BY <3>2, PageSize
    <3>4. new \div PAGE_SIZE = b
      BY <3>2, <3>3, PageSize, DivExact
    <3> QED  BY <3>1, <3>2, <3>4 DEF InPages
  <2>5. ASSUME NEW p \in DOMAIN live PROVE hdr'[p - HDR].size = hdr[p - HDR].size
    <3> DEFINE c == p - HDR
    <3>1. c \in DOMAIN hdr /\ hdr[c] \in HeaderType
      BY <2>1, BlockFacts DEF HeapOK, HeldIn
    <3> HIDE DEF new, c
    <3>2. c # new
      BY <2>4, <3>1
    <3>3. hdr'[c] = IF c = blockListEnd THEN [hdr[c] EXCEPT !.next = new] ELSE hdr[c]
      BY <2>2, <3>1, <3>2 DEF new
    <3>4. [hdr[c] EXCEPT !.next = new].size = hdr[c].size
      BY <3>1 DEF HeaderType
    <3>5. hdr'[c].size = hdr[c].size
      BY <3>3, <3>4
    <3> QED  BY <3>5 DEF c
  <2>6. Asked' = Asked
    BY <2>1 DEF Asked
  <2> QED  BY <2>1, <2>3, <2>5, <2>6, UnseenStep
<1>6. CASE WalkOn \/ kheap_extend_panic \/ kheap_init_panic \/ kzalloc_clear
  <2>1. UNCHANGED <<hdr, live>> /\ HeapPages' = HeapPages /\ Asked' = Asked
    BY <1>6 DEF WalkOn, kheap_extend_panic, kheap_init_panic, kzalloc_clear, pageVars, listVars,
                callVars, PMM!AllocPanic, HeapPages, Asked
  <2> QED  BY <2>1, KeptStep
<1>7. CASE \E p \in Freeable : kfree(p)
  BY <1>7, FreePromise
<1>8. CASE \E n \in OtherRequests : OtherAlloc(n)
  <2>1. PICK n \in OtherRequests : OtherAlloc(n)
    BY <1>8
  <2>2. PICK b \in avail : PMM!Alloc(b, n) /\ others' = others \cup PMM!Run(b, n)
    BY <2>1 DEF OtherAlloc
  <2>3. HeapPages' = HeapPages
    BY <2>2 DEF PMM!Alloc, PMM!IsFirstFit, HeapPages, IndInv, PagesInv
  <2>4. UNCHANGED <<hdr, live>> /\ Asked' = Asked
    BY <2>1 DEF OtherAlloc, listVars, callVars, Asked
  <2> QED  BY <2>3, <2>4, KeptStep
<1>9. CASE \E b, c \in others : OtherFree(b, c - b + 1)
  <2>1. PICK b \in others, c \in others : OtherFree(b, c - b + 1)
    BY <1>9
  <2>2. HeapPages' = HeapPages
    BY <2>1 DEF OtherFree, PMM!Free, HeapPages
  <2>3. UNCHANGED <<hdr, live>> /\ Asked' = Asked
    BY <2>1 DEF OtherFree, listVars, callVars, Asked
  <2> QED  BY <2>2, <2>3, KeptStep
<1>10. CASE UNCHANGED vars
  BY <1>10 DEF vars, pageVars, listVars, callVars, Promise!heapVars, HeapPages
<1> QED  BY <1>1, <1>2, <1>3, <1>4, <1>5, <1>6, <1>7, <1>8, <1>9, <1>10 DEF Next, Step, Halted

\* The heap of kheap.c implements the heap its callers are promised: chunks
\* that are long enough, apart, in the heap's pages, and left alone until they
\* are freed.
THEOREM HeapImplements == NoOverflow => (Spec => ImplementsHeap)
<1> SUFFICES ASSUME NoOverflow PROVE Spec => ImplementsHeap
  OBVIOUS
<1>1. IndInv /\ IndInv' /\ [Next]_vars => [Promise!HeapNext]_(Promise!heapVars)
  BY NextPromise
<1>2. Spec => []IndInv
  BY Invariance
<1> QED  BY <1>1, <1>2, InitPromise, PTL DEF Spec, ImplementsHeap, Promise!HeapSpecification

-----------------------------------------------------------------------------
(***************************************************************************)
(* The walk of kmalloc comes to no block twice.                            *)
(***************************************************************************)
\* In a closed list the set that follows one of its blocks is closed itself.
LEMMA AheadClosed ==
  ASSUME NEW h, Headers(h), NEW L \in SUBSET DOMAIN h, NEW b \in L, ClosedIn(h, b, L)
  PROVE  ListIn(h, b) \subseteq L /\ b \in ListIn(h, b) /\ ClosedIn(h, b, ListIn(h, b))
<1>1. NULL \notin DOMAIN h /\ b \in DOMAIN h
  BY DEF Headers
<1>2. ListIn(h, b) \subseteq L
  BY ListLeast
<1>3. b \in ListIn(h, b)
  BY <1>1 DEF ListIn, ClosedIn
<1>4. ASSUME NEW x \in ListIn(h, b), h[x].next # NULL PROVE h[x].next \in ListIn(h, b)
  <2>1. x \in L /\ h[x].next \in L
    BY <1>2, <1>4 DEF ClosedIn
  <2>2. ASSUME NEW S \in SUBSET (DOMAIN h \ {h[x].next}), ClosedIn(h, b, S) PROVE FALSE
    <3>1. S \in SUBSET DOMAIN h
      OBVIOUS
    <3>2. x \in S
      BY <2>2, <3>1, ListLeast
    <3> QED  BY <1>4, <2>2, <3>2 DEF ClosedIn
  <2> QED  BY <2>1, <2>2 DEF ListIn
<1> QED  BY <1>2, <1>3, <1>4 DEF ClosedIn

LEMMA AheadOfNone ==
  ASSUME NEW h PROVE ListIn(h, NULL) = {}
<1>1. ClosedIn(h, NULL, {})
  BY DEF ClosedIn
<1>2. {} \in SUBSET DOMAIN h
  OBVIOUS
<1> QED  BY <1>1, <1>2, ListLeast

\* The list is not a ring: what comes after a block does not lead back to it.
\* On a ring every block would have its predecessor in the ring, so the first
\* block of the list would not be in it, and no way would lead into it.
LEMMA NoRing ==
  ASSUME NEW h, NEW s, NEW e, Headers(h), LinkedIn(h, s, e), NEW b \in ListIn(h, s)
  PROVE  /\ ListIn(h, h[b].next) \subseteq ListIn(h, b) \ {b}
         /\ b \in ListIn(h, b) /\ ListIn(h, b) \subseteq ListIn(h, s)
<1> DEFINE L == ListIn(h, s)
           n == h[b].next
           R == ListIn(h, b)
           C == ListIn(h, n)
<1>1. /\ s \in L /\ h[s].prev = NULL
      /\ \A x \in L : h[x].next # NULL => h[x].next \in L /\ h[h[x].next].prev = x
  BY DEF LinkedIn
<1>2. L \in SUBSET DOMAIN h /\ NULL \notin L
  BY ListFacts DEF Headers
<1>3. \A x \in L : ClosedIn(h, x, L)
  BY <1>1 DEF ClosedIn
<1>4. R \subseteq L /\ b \in R /\ ClosedIn(h, b, R)
  <2> HIDE DEF L
  <2>1. b \in L
    BY DEF L
  <2> QED  BY <1>2, <1>3, <2>1, AheadClosed
<1>5. CASE n = NULL
  <2>1. C = {}
    BY <1>5, AheadOfNone
  <2> QED  BY <1>4, <2>1
<1>6. CASE n # NULL
  <2>1. n \in L /\ h[n].prev = b
    BY <1>1, <1>6
  <2>2. C \subseteq L /\ n \in C /\ ClosedIn(h, n, C)
    <3> HIDE DEF L, n
    <3> QED  BY <1>2, <1>3, <2>1, AheadClosed
  <2>3. C \subseteq R
    <3>1. n \in R
      BY <1>4, <1>6 DEF ClosedIn
    <3>2. ClosedIn(h, n, R)
      BY <1>4, <3>1 DEF ClosedIn
    <3>3. R \in SUBSET DOMAIN h
      BY <1>2, <1>4
    <3> HIDE DEF R, n
    <3> QED  BY <3>2, <3>3, ListLeast
  <2>4. b \notin C
    <3> SUFFICES ASSUME b \in C PROVE FALSE
      OBVIOUS
    <3> HIDE DEF L, C, n
    <3> DEFINE D == {x \in C : h[x].prev \in C}
    <3>1. C \subseteq D
      <4>1. n \in D
        BY <2>1, <2>2
      <4>2. ASSUME NEW x \in D, h[x].next # NULL PROVE h[x].next \in D
        <5>1. h[x].next \in C /\ x \in C
          BY <2>2, <4>2 DEF ClosedIn
        <5>2. h[h[x].next].prev = x
          BY <1>1, <2>2, <4>2, <5>1
        <5> QED  BY <5>1, <5>2
      <4>3. ClosedIn(h, n, D)
        BY <4>1, <4>2 DEF ClosedIn
      <4>4. D \in SUBSET DOMAIN h
        BY <1>2, <2>2
      <4> HIDE DEF D
      <4> QED  BY <4>3, <4>4, ListLeast DEF C
    <3>2. s \notin C
      BY <1>1, <1>2, <2>2, <3>1
    <3>3. ClosedIn(h, s, L \ C)
      <4>1. ASSUME NEW x \in L \ C, h[x].next # NULL PROVE h[x].next \in L \ C
        <5>1. h[x].next \in L /\ h[h[x].next].prev = x
          BY <1>1, <4>1
        <5> QED  BY <3>1, <5>1
      <4> QED  BY <1>1, <3>2, <4>1 DEF ClosedIn
    <3>4. L \ C \in SUBSET DOMAIN h
      BY <1>2
    <3>5. L \subseteq L \ C
      BY <3>3, <3>4, ListLeast DEF L
    <3> QED  BY <2>1, <2>2, <3>5
  <2> QED  BY <1>4, <2>3, <2>4
<1> QED  BY <1>5, <1>6

\* The blocks that the walk has still before it.
Ahead == ListIn(hdr, bh)

WalkAdvances ==
  pc = "walk" /\ pc' = "walk" /\ phase' = "run" =>
    \/ depth = 0 /\ depth' = 1
    \/ /\ depth' = depth
       /\ Cardinality(Ahead) \in Nat /\ Cardinality(Ahead') \in Nat
       /\ Cardinality(Ahead') < Cardinality(Ahead)

LEMMA WalkOnAdvances ==
  ASSUME IndInv, WalkOn PROVE WalkAdvances
<1>1. pc = "walk" /\ bh # NULL /\ bh' = hdr[bh].next /\ UNCHANGED <<hdr, blockListStart, depth>>
  BY DEF WalkOn, listVars
<1>2. /\ Headers(hdr) /\ LinkedIn(hdr, blockListStart, blockListEnd)
      /\ bh \in ListIn(hdr, blockListStart)
  BY <1>1 DEF IndInv, HeapInv, HeapOK, WalkInv
<1>3. Ahead' = ListIn(hdr, hdr[bh].next)
  BY <1>1 DEF Ahead, ListIn, ClosedIn
<1>4. Ahead' \subseteq Ahead \ {bh} /\ bh \in Ahead /\ Ahead \subseteq ListIn(hdr, blockListStart)
  BY <1>2, <1>3, NoRing DEF Ahead
<1>5. IsFiniteSet(Ahead)
  <2>1. Ahead \subseteq Addresses
    BY <1>2, <1>4, ListFacts DEF Headers
  <2>2. IsFiniteSet(Addresses)
    BY PageSize, FS_Interval DEF Addresses
  <2> QED  BY <2>1, <2>2, FS_Subset
<1> DEFINE A == Ahead
           B == Ahead'
<1> HIDE DEF A, B
<1>6. IsFiniteSet(A) /\ bh \in A /\ B \in SUBSET (A \ {bh})
  BY <1>4, <1>5 DEF A, B
<1>7. IsFiniteSet(A \ {bh}) /\ Cardinality(A \ {bh}) = Cardinality(A) - 1 /\ Cardinality(A) \in Nat
  BY <1>6, FS_RemoveElement, FS_CardinalityType
<1>8. IsFiniteSet(B) /\ Cardinality(B) <= Cardinality(A) - 1
  BY <1>6, <1>7, FS_Subset
<1>9. Cardinality(B) \in Nat
  BY <1>8, FS_CardinalityType
<1>a. Cardinality(B) < Cardinality(A)
  BY <1>7, <1>8, <1>9
<1> QED  BY <1>1, <1>7, <1>9, <1>a DEF WalkAdvances, A, B

LEMMA FreesIdle ==
  ASSUME NEW p \in Freeable, kfree(p) PROVE pc = "idle"
BY Zenon DEF kfree

LEMMA NextAdvances ==
  ASSUME IndInv, [Next]_vars PROVE [WalkAdvances]_vars
<1>1. CASE WalkOn
  BY <1>1, WalkOnAdvances
<1>2. CASE TakeWhole \/ TakeSplit
  <2>1. pc' # "walk"
    BY <1>2 DEF TakeWhole, TakeSplit, Return
  <2> QED  BY <2>1 DEF WalkAdvances
<1>3. CASE kheap_extend
  <2>1. depth = 0 /\ depth' = 1
    BY <1>3 DEF kheap_extend, IndInv, WalkInv
  <2> QED  BY <2>1 DEF WalkAdvances
<1>4. CASE kheap_extend_panic
  <2>1. phase' = "halt"
    BY <1>4 DEF kheap_extend_panic, PMM!AllocPanic
  <2> QED  BY <2>1 DEF WalkAdvances
<1>5. CASE \/ kheap_init \/ kheap_init_panic \/ \E n \in Sizes, z \in BOOLEAN : kmalloc(n, z)
           \/ kzalloc_clear \/ \E p \in Freeable : kfree(p)
           \/ \E n \in OtherRequests : OtherAlloc(n)
           \/ \E b, c \in others : OtherFree(b, c - b + 1)
  <2>1. kheap_init \/ kheap_init_panic => pc = "boot"
    BY DEF kheap_init, kheap_init_panic
  <2>2. kzalloc_clear => pc = "zero"
    BY DEF kzalloc_clear
  <2>3. ASSUME NEW n, NEW z, kmalloc(n, z) PROVE pc = "idle"
    BY <2>3 DEF kmalloc
  <2>4. ASSUME NEW p \in Freeable, kfree(p) PROVE pc = "idle"
    BY <2>4, FreesIdle
  <2>5. /\ \A n : OtherAlloc(n) => pc \in {"boot", "idle"}
        /\ \A b, n : OtherFree(b, n) => pc \in {"boot", "idle"}
    BY DEF OtherAlloc, OtherFree
  <2>6. pc # "walk"
    BY <1>5, <2>1, <2>2, <2>3, <2>4, <2>5
  <2> QED  BY <2>6 DEF WalkAdvances
<1>6. CASE UNCHANGED vars
  BY <1>6
<1> QED  BY <1>1, <1>2, <1>3, <1>4, <1>5, <1>6 DEF Next, Step, Halted

\* kmalloc cannot walk for ever: a step of the walk leaves fewer blocks ahead,
\* or extends the heap, which happens once in a call.
THEOREM KmallocAdvances == NoOverflow => (Spec => [][WalkAdvances]_vars)
<1> SUFFICES ASSUME NoOverflow PROVE Spec => [][WalkAdvances]_vars
  OBVIOUS
<1>1. IndInv /\ [Next]_vars => [WalkAdvances]_vars
  BY NextAdvances
<1> QED  BY <1>1, Invariance, PTL DEF Spec
=============================================================================
