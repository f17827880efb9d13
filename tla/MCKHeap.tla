-------------------------------- MODULE MCKHeap --------------------------------
(***************************************************************************)
(* Instances of KHeap for TLC: three pages of 128 bytes and the real       *)
(* header size.  A page has room for one block of 48 bytes (a request of   *)
(* 33) and a remainder too small to use; two pages taken for a request of  *)
(* 100 hold three such blocks, the last one too short to be split.         *)
(***************************************************************************)
EXTENDS KHeap

HeapPool == 1 .. 3

SmallSizes == {33, 100}
=============================================================================
