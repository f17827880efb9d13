-------------------------------- MODULE HeapSpec --------------------------------
(***************************************************************************)
(* What the kernel heap promises (include/symphony/mm.h, kmalloc, kzalloc  *)
(* and kfree): chunks of memory that are long enough, lie in pages of the  *)
(* heap and do not overlap, and that stay as they are until their holder   *)
(* frees them.  There are no headers here and no list.                     *)
(* KHeap.tla is shown to implement this module.                            *)
(***************************************************************************)
EXTENDS Integers

CONSTANT PAGE_SIZE

VARIABLES
  chunks,  \* what is handed out: address to length
  pages,   \* the pages of the heap
  asked    \* the size the running kmalloc was asked for, or NoSize

heapVars == <<chunks, pages, asked>>

NoSize == -1

Bytes(p, n) == p .. (p + n - 1)

HeapInit == chunks = [p \in {} |-> 0] /\ pages = {} /\ asked = NoSize

\* The heap only ever gains pages: at boot, and when kmalloc finds no room.
Grow ==
  /\ pages \subseteq pages'
  /\ UNCHANGED <<chunks, asked>>

Ask ==
  /\ asked = NoSize /\ asked' >= 0
  /\ UNCHANGED <<chunks, pages>>

\* kmalloc returns a chunk that nobody else holds a byte of.
Give(p, n) ==
  /\ asked # NoSize /\ n >= asked
  /\ p \notin DOMAIN chunks
  /\ \A q \in DOMAIN chunks : q + chunks[q] <= p \/ p + n <= q
  /\ {a \div PAGE_SIZE : a \in Bytes(p, n)} \subseteq pages
  /\ chunks' = [q \in DOMAIN chunks \cup {p} |-> IF q = p THEN n ELSE chunks[q]]
  /\ asked' = NoSize
  /\ UNCHANGED pages

\* kfree takes back one chunk.
Free(p) ==
  /\ asked = NoSize
  /\ chunks' = [q \in DOMAIN chunks \ {p} |-> chunks[q]]
  /\ UNCHANGED <<pages, asked>>

HeapNext ==
  \/ Grow
  \/ Ask
  \/ \E p \in DOMAIN chunks' \ DOMAIN chunks : Give(p, chunks'[p])
  \/ \E p \in DOMAIN chunks : Free(p)

HeapSpecification == HeapInit /\ [][HeapNext]_heapVars
=============================================================================
