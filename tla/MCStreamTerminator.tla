------------------------ MODULE MCStreamTerminator ------------------------
(***************************************************************************)
(* A small instance of StreamTerminator for TLC: a session builder that    *)
(* is connected before the thread starts, and a name that may be added.    *)
(***************************************************************************)
EXTENDS StreamTerminator

CONSTANTS n1, n2, a1, a2

OneConnected ==
    [n \in Names |->
        IF n = n1
          THEN [addr |-> a1, nodes |-> Nodes, sock |-> 1, outBuf |-> <<>>]
          ELSE NoEntry]
AllOrNone == {Nodes, {}}
NoStray == \A n \in Names : stray[n] = <<>>
====
