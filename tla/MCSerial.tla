-------------------------------- MODULE MCSerial --------------------------------
(***************************************************************************)
(* An instance of Serial for TLC.                                          *)
(***************************************************************************)
EXTENDS Serial

MCChars == {"a", "b", "LF"}
=============================================================================
