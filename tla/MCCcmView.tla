----------------------------- MODULE MCCcmView -----------------------------
(***************************************************************************)
(* Small instances of CcmView for TLC.                                     *)
(***************************************************************************)
EXTENDS CcmView, TLC

CONSTANTS f1, f2, k1, dSB, dST, a1, v1

MCKind == [d \in Descs |-> IF d = dST THEN "ST" ELSE "SB"]
MCDefaults == [s \in Sections |-> EmptyCfg]

FdSymmetry == Permutations(Fds)
=============================================================================
