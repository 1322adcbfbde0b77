-------------------------------- MODULE Fifo --------------------------------
(***************************************************************************)
(* What a connection of the control bus promises its user: the messages    *)
(* put in at one end come out at the other, whole, in order, and once.     *)
(***************************************************************************)
EXTENDS Naturals, Sequences

CONSTANT Msgs

VARIABLES
    sent,       \* messages put in
    got         \* messages that have come out

Init == sent = <<>> /\ got = <<>>

Send(m) ==
    /\ sent' = Append(sent, m)
    /\ UNCHANGED got

Deliver ==
    /\ Len(got) < Len(sent)
    /\ got' = Append(got, sent[Len(got) + 1])
    /\ UNCHANGED sent

Next == Deliver \/ \E m \in Msgs : Send(m)

Spec == Init /\ [][Next]_<<sent, got>>
=============================================================================
