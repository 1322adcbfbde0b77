---------------------------- MODULE MCControlBus ----------------------------
(***************************************************************************)
(* Small instances of ControlBus for TLC.                                  *)
(***************************************************************************)
EXTENDS ControlBus

CONSTANTS f1, f2, k1, k2, dSB, dST, a1, v1, v2

MCKind == [d \in Descs |-> IF d = dST THEN "ST" ELSE "SB"]

\* A Session Builder, then a Stream Terminator.
MCDescOf == [k \in Conns |-> IF k = k1 THEN dSB ELSE dST]

MCDefaults ==
    [s \in Sections |-> [a \in Attrs |->
        IF s = "STAttrs" THEN v2 ELSE NoVal]]

\* The first program says two things, the second one.
TwoThenOne == [k \in Conns |-> IF k = k1 THEN 2 ELSE 1]

\* Either says one.
OneEach == [k \in Conns |-> 1]
=============================================================================
