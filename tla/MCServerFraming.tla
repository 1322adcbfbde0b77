--------------------------- MODULE MCServerFraming ---------------------------
(***************************************************************************)
(* Small instances of ServerFraming for TLC: a header of three bytes, and  *)
(* lengths that take one digit up to MaxLen.                               *)
(***************************************************************************)
EXTENDS ServerFraming
=============================================================================
