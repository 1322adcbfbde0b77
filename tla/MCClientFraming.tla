--------------------------- MODULE MCClientFraming ---------------------------
(***************************************************************************)
(* Small instances of ClientFraming for TLC: a header of three bytes, and  *)
(* lengths that take one digit up to MaxLen.                               *)
(***************************************************************************)
EXTENDS ClientFraming
=============================================================================
