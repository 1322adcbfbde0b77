------------------------------- MODULE MCAsn1 -------------------------------
(***************************************************************************)
(* Values at the boundaries of their encodings, for TLC.                   *)
(***************************************************************************)
EXTENDS Asn1

\* The last number of one byte and the first of two, on either side of 0,
\* and the corner case of two's complement.
Ints == {127, 128, -128, -129, -32769}

Call(nr, cls, k, v) == [nr |-> nr, cls |-> cls, kind |-> k, v |-> v]

\* 128 octets are the fewest whose length is written in the long form.
Octets == [i \in 1 .. 128 |-> i]

MCCalls ==
    {Call(NotGiven, 0, "int", <<n>>) : n \in Ints}
    \cup {Call(NotGiven, 0, "bytes", Octets), Call(NotGiven, 0, "none", <<>>),
          Call(NotGiven, 0, "bool", <<0>>), Call(Boolean, 128, "int", <<2>>),
          Call(PrintableString, 192, "str", <<>>), Call(31, 0, "bytes", <<1>>),
          Call(ObjectIdentifier, 0, "oid", <<1, 39, 840, 0>>)}

\* A sequence, and a number of two bytes in the long form.
MCEnters == {[nr |-> 16, cls |-> 0], [nr |-> 200, cls |-> 64]}
=============================================================================
