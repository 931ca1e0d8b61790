--------------------------- MODULE MCPathWalkFrom ---------------------------
(* Instances of PathWalk for TLC that start from directories three deep.   *)
EXTENDS MCA1fsFrom, PathWalk

MCSpelling == [n \in Two |-> IF n = n1 THEN <<"a">> ELSE <<"a", "b">>]

=============================================================================
