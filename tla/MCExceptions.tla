------------------------------ MODULE MCExceptions ------------------------------
(***************************************************************************)
(* Instances of Exceptions for TLC: all vectors the stubs of which agree   *)
(* with the CPU on the error code, up to two on top of each other; and the *)
(* remaining ones.  An address has eight bits instead of 64.               *)
(***************************************************************************)
EXTENDS Exceptions

Agreeing == Vector \ {17, 21, 29, 30}

MCStubAddr == [v \in Vector |-> 97 + 5 * v]
=============================================================================
