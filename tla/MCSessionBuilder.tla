-------------------------- MODULE MCSessionBuilder --------------------------
(***************************************************************************)
(* A small instance of SessionBuilder for TLC: two schemas that share an   *)
(* event which can fail a session, one with an ender, and a file that     *)
(* cannot be loaded.                                                       *)
(***************************************************************************)
EXTENDS SessionBuilder, TLC

TwoSchemas ==
    [s \in {"one", "two", "bad"} |->
        IF s = "one" THEN {4106, 4125} ELSE IF s = "two" THEN {4106} ELSE {}]
Users == Permutations(Keys)
OneOrEBSL == {[schema |-> "one", ebsl |-> FALSE], [schema |-> "none", ebsl |-> TRUE]}
FailOrAll == {{"fail"}, {"all", "fail"}}
=============================================================================
