------------------------------- MODULE MCMemory -------------------------------
(***************************************************************************)
(* Instances of Memory for TLC: every content of four bytes.  A byte has   *)
(* five values: NUL, two positive and two negative chars.                  *)
(***************************************************************************)
EXTENDS Memory

\* One that is not negative and fits, and one of each that does not.
MCInts == {1, -1, BYTE + 1}
=============================================================================
