------------------------------- MODULE MCAttr -------------------------------
(* Instances of Attr for TLC.                                              *)
EXTENDS Attr

CONSTANTS n1, n2

Two        == {n1, n2}
MCSpelling == [n \in Two |-> IF n = n1 THEN <<"a">> ELSE <<"a", "b">>]

=============================================================================
